---- MODULE Spec2Model ----
(***************************************************************************)
(* CG-CRM-Backend: the dual-write core of the webhook pipeline.            *)
(*                                                                         *)
(*   SpecMutex  - withWaIdMutex (src/index.js): the lease kept in the      *)
(*                shared lock store, one step per datastore call.          *)
(*   SpecQueue  - pendingQueue (src/unnamed/part_001): enqueue, the poll   *)
(*                timer and _processQueue, one step per await.             *)
(*   Spec       - webhook -> handler -> buildWriteBoth/tryWriteOrQueue     *)
(*                over the document store and the spreadsheet, one step    *)
(*                per backend call.                                        *)
(*   SpecUpsert - createOrUpdateLead called sequentially by one caller.    *)
(*   SpecStore  - the firestoreService functions and processEdit called    *)
(*                by two callers in flight together.                       *)
(*   SpecSeq    - the same calls made by one caller, one after another.    *)
(*   SpecSheet  - sheetsService.insertNewContact called by two callers in  *)
(*                flight together, with its fire-and-forget promises.      *)
(*   SpecSheetSeq - insertNewContact called by one caller, one call after  *)
(*                another.                                                 *)
(*   SpecMutexLive - SpecMutex where pending datastore calls settle.       *)
(*   SpecFormats - the webhook with one subscriber's number delivered with *)
(*                and without the country code.                            *)
(*   SpecLookup - findUserByPhoneNumber on a sheet that agents fill.       *)
(*   SpecForm   - handleFormSubmission (src/handlers/formHandler.js).      *)
(*   SpecSide   - handleNewContact and handleFormSubmission with their     *)
(*                side effects succeeding or failing.                      *)
(*   SpecHelpers - the phone helpers of src/utils/helpers.js called with   *)
(*                empty and non-empty values.                              *)
(*   SpecDedup  - the duplicate check of the webhook and the hourly sweep  *)
(*                of processedEvents, over hours.                          *)
(*   SpecSync   - handleSheetEdit (src/handlers/syncHandler.js) over a     *)
(*                batch of edits.                                          *)
(***************************************************************************)
EXTENDS Integers, Sequences, FiniteSets, TLC

VARIABLES
    \* ---- lock store and withWaIdMutex callers (src/index.js) ----
    lockStore,      \* identities that have a lease entity in 'waId_locks'
    mutexPc,        \* caller -> position inside withWaIdMutex
    retries,        \* caller -> the local counter `retries`
    callWaId,       \* caller -> the identity the call was made with
    mutexLog        \* caller -> fn invocations of the call, how fn settled,
                    \*           and how the call itself settled

VARIABLES
    \* ---- pendingQueue (src/unnamed/part_001) ----
    queue,          \* the array `queue`: references (heap indices) of the items
    heap,           \* the item objects ever pushed, by reference
    intervalId,     \* NoTimer (null) or the timer set by _ensureRunning
    clock,          \* Date.now(), in ms
    passes,         \* the _processQueue invocations suspended at their await
    itemLog,        \* per item: how many 'failed', 'Resolved', DEAD_LETTER lines
    enqueueLog,     \* the enqueue calls made so far and what the last one did
    outage          \* whether the backend behind "store" write functions is down

VARIABLES
    \* ---- webhook, handlers and the two stores ----
    leads,          \* the 'leads' collection: document id -> document
    leadCounter,    \* the counter document's leadCounter
    sheetRows,      \* the rows of the contacts sheet, in row order
    fsDown,         \* the document store is unreachable
    shDown,         \* the spreadsheet API is unreachable
    processedEvents,\* the keys of the Map processedEvents
    task            \* per webhook call / direct caller: position and locals

VARIABLES
    \* ---- callers of the helpers of src/utils/helpers.js ----
    helperLog,      \* the helper calls made: function, arguments, outcome
    eventStamps,    \* the entries [key, timestamp] of the Map processedEvents
    deliveries,     \* the webhook deliveries answered: body, event id, answer
    sheetEdit       \* the locals of the handleSheetEdit call: edits, results

mutexVars == <<lockStore, mutexPc, retries, callWaId, mutexLog>>

queueVars == <<queue, heap, intervalId, clock, passes, itemLog, enqueueLog, outage>>

leadVars == <<leads, leadCounter, sheetRows, fsDown, shDown, processedEvents, task>>

dedupVars == <<eventStamps, deliveries>>

auxVars == <<helperLog, dedupVars, sheetEdit>>

vars == <<mutexVars, queueVars, leadVars, auxVars>>

\* what the steps of one component leave alone
notMutex == <<queueVars, leadVars, auxVars>>

notQueue == <<mutexVars, leadVars, auxVars>>

(***************************************************************************)
(* withWaIdMutex                                                           *)
(***************************************************************************)

\* while (retries < maxRetries), src/index.js:34
maxRetries == 60

MutexCallers == {"c1", "c2"}

\* the identities calls are made with; "" is the missing waId of line 31
WaIds == {"", "919876543210", "919812345678"}

\* nothing invoked, nothing settled
NoMutexLog ==
    [timedOut |-> FALSE, fnCalls |-> 0, fn |-> "none", release |-> "none",
     call |-> "none"]

\* no lease, every caller outside withWaIdMutex
MutexStart ==
    [lockStore |-> {},
     mutexPc   |-> [c \in MutexCallers |-> "idle"],
     retries   |-> [c \in MutexCallers |-> 0],
     callWaId  |-> [c \in MutexCallers |-> ""],
     mutexLog  |-> [c \in MutexCallers |-> NoMutexLog]]

\* withWaIdMutex(waId, fn) is entered: `if (!waId) return fn()`, else the
\* polling loop starts with retries = 0.
MutexCall(c, id) ==
    /\ mutexPc[c] = "idle"
    /\ callWaId' = [callWaId EXCEPT ![c] = id]
    /\ retries' = [retries EXCEPT ![c] = 0]
    /\ mutexPc' = [mutexPc EXCEPT ![c] = IF id = "" THEN "fn" ELSE "check"]
    /\ mutexLog' = [mutexLog EXCEPT ![c] =
                       [NoMutexLog EXCEPT !.fnCalls = IF id = "" THEN 1 ELSE 0]]
    /\ UNCHANGED lockStore
    /\ UNCHANGED notMutex

\* a loop `while (retries <= maxRetries)`: one poll too many
AfterWait_OneMore(r) == IF r <= maxRetries THEN "check" ELSE "save"

\* where the loop goes after one more failed poll
AfterWait(r) == IF r < maxRetries THEN "check" ELSE "save"

\* One iteration of the polling loop: datastore.get(lockKey) answers, or
\* throws (the catch breaks out of the loop).
MutexGet(c, getThrows) ==
    /\ mutexPc[c] = "check"
    /\ IF getThrows \/ callWaId[c] \notin lockStore
         THEN /\ mutexPc' = [mutexPc EXCEPT ![c] = "save"]
              /\ UNCHANGED retries
         ELSE /\ retries' = [retries EXCEPT ![c] = retries[c] + 1]
              /\ mutexPc' = [mutexPc EXCEPT ![c] = AfterWait(retries[c] + 1)]
    /\ UNCHANGED <<lockStore, callWaId, mutexLog>>
    /\ UNCHANGED notMutex

\* the lock store after datastore.save of the lease
SaveLease(store, id) == store \cup {id}

\* datastore.save({key: lockKey, data: {locked, timestamp, ttl}}); a throw is
\* logged and fn runs all the same. The local `retries` is not read again.
MutexSave(c, saveThrows) ==
    /\ mutexPc[c] = "save"
    /\ lockStore' = IF saveThrows THEN lockStore
                    ELSE SaveLease(lockStore, callWaId[c])
    /\ mutexPc' = [mutexPc EXCEPT ![c] = "fn"]
    /\ retries' = [retries EXCEPT ![c] = 0]
    /\ mutexLog' = [mutexLog EXCEPT
                       ![c].timedOut = retries[c] >= maxRetries,
                       ![c].fnCalls = @ + 1]
    /\ UNCHANGED callWaId
    /\ UNCHANGED notMutex

\* how fn() can settle
FnOutcomes == {"returned", "threw"}

\* `await fn()` settles (returns or throws): the finally block is next; the
\* call without identity is `return fn()` and settles as fn did.
MutexFnSettles(c, outcome) ==
    /\ mutexPc[c] = "fn"
    /\ mutexPc' = [mutexPc EXCEPT ![c] =
                      IF callWaId[c] = "" THEN "idle" ELSE "release"]
    /\ mutexLog' = [mutexLog EXCEPT
                       ![c].fn = outcome,
                       ![c].call = IF callWaId[c] = "" THEN outcome ELSE @]
    /\ UNCHANGED <<lockStore, retries, callWaId>>
    /\ UNCHANGED notMutex

\* a finally block whose own error escapes
MutexSettled_DeleteErrorEscapes(fn, deleteThrows) ==
    IF deleteThrows THEN "threw_delete" ELSE fn

\* how the call settles after the finally block: the error of the delete is
\* caught and logged, so the call settles as fn did
MutexSettled(fn, deleteThrows) == fn

\* the lock store after datastore.delete(lockKey)
DeleteLease(store, id) == store \ {id}

\* finally: datastore.delete(lockKey); a throw is logged. The call has
\* returned: its locals are gone.
MutexDelete(c, deleteThrows) ==
    /\ mutexPc[c] = "release"
    /\ lockStore' = IF deleteThrows THEN lockStore
                    ELSE DeleteLease(lockStore, callWaId[c])
    /\ mutexPc' = [mutexPc EXCEPT ![c] = "idle"]
    /\ mutexLog' = [mutexLog EXCEPT
                       ![c].release = IF deleteThrows THEN "failed" ELSE "deleted",
                       ![c].call = MutexSettled(mutexLog[c].fn, deleteThrows)]
    /\ UNCHANGED <<retries, callWaId>>
    /\ UNCHANGED notMutex

MutexNext ==
    \/ \E c \in MutexCallers, id \in WaIds : MutexCall(c, id)
    \/ \E c \in MutexCallers, t \in BOOLEAN : MutexGet(c, t)
    \/ \E c \in MutexCallers, t \in BOOLEAN : MutexSave(c, t)
    \/ \E c \in MutexCallers, outcome \in FnOutcomes : MutexFnSettles(c, outcome)
    \/ \E c \in MutexCallers, t \in BOOLEAN : MutexDelete(c, t)

(***************************************************************************)
(* pendingQueue                                                            *)
(***************************************************************************)

MAX_RETRIES == 5

BACKOFF_MS == <<0, 15000, 60000, 300000, 900000>>

POLL_INTERVAL_MS == 10000

\* time advances in half poll intervals, so that a call can fall between ticks
TimeStep == POLL_INTERVAL_MS \div 2

\* simultaneous _processQueue invocations the model follows
MaxPasses == 2

\* enqueue calls per run
MaxEnqueues == 2

\* enqueue calls come during the first MaxEnqueueTick poll intervals
MaxEnqueueTick == 1

\* the outage, if it ends, ends within the first MaxOutageTick poll intervals
MaxOutageTick == 4

\* an awaited write function settles within MaxWriteMs: long enough for the
\* timer to fire while it runs
MaxWriteMs == 10000

\* the timer is followed for MaxTicks poll intervals
MaxTicks == 135

OperationIds == {"op-1", "op-2"}

\* the write functions handed to enqueue: one that throws on every call, one
\* that throws while its backend is down
WriteFns == {"alwaysThrows", "store"}

NoTimer == [running |-> FALSE, startedAt |-> 0]

NoPass == [active |-> FALSE, now |-> 0, i |-> 0, item |-> 0, since |-> 0]

PassIds == 1..MaxPasses

\* the module just loaded: `const queue = []`, `let intervalId = null`
QueueStart ==
    [queue      |-> <<>>,
     heap       |-> <<>>,
     intervalId |-> NoTimer,
     clock      |-> 0,
     passes     |-> [p \in PassIds |-> NoPass],
     itemLog    |-> <<>>,
     enqueueLog |-> [calls |-> 0, operationId |-> "", skipped |-> FALSE],
     outage     |-> TRUE]

\* queue.find(item => item.operationId === operationId)
Queued(operationId) ==
    \E k \in 1..Len(queue) : heap[queue[k]].operationId = operationId

\* _ensureRunning: setInterval once, never cleared
EnsureRunning == IF intervalId.running THEN intervalId
                 ELSE [running |-> TRUE, startedAt |-> clock]

\* the enqueue that skips the deduplication of lines 31-34
EnqueueGuard_NoDedup(operationId) == TRUE

\* whether enqueue goes on to push: `if (queue.find(...)) return`
EnqueueGuard(operationId) == ~Queued(operationId)

\* the body of enqueue(operationId, writeFn, metadata)
Enqueued(operationId, writeFn) ==
    /\ IF EnqueueGuard(operationId)
         THEN /\ heap' = Append(heap, [operationId |-> operationId,
                                       writeFn     |-> writeFn,
                                       attempts    |-> 0,
                                       nextRetryAt |-> clock,
                                       enqueuedAt  |-> clock])
              /\ queue' = Append(queue, Len(heap) + 1)
              /\ itemLog' = Append(itemLog, [failed |-> 0, resolved |-> 0, dead |-> 0])
              /\ intervalId' = EnsureRunning
         ELSE UNCHANGED <<heap, queue, itemLog, intervalId>>
    /\ enqueueLog' = [calls |-> enqueueLog.calls + 1, operationId |-> operationId,
                      skipped |-> ~EnqueueGuard(operationId)]

\* enqueue(operationId, writeFn, metadata), called by a failed write
enqueue(operationId, writeFn) ==
    /\ enqueueLog.calls < MaxEnqueues
    /\ clock <= MaxEnqueueTick * POLL_INTERVAL_MS
    /\ Enqueued(operationId, writeFn)
    /\ UNCHANGED <<clock, passes, outage>>
    /\ UNCHANGED notQueue

\* getStats(): pending and, per item, operationId / attempts / nextRetryAt
getStats ==
    [pending |-> Len(queue),
     items   |-> [k \in 1..Len(queue) |->
                    [operationId |-> heap[queue[k]].operationId,
                     attempts    |-> heap[queue[k]].attempts,
                     nextRetryAt |-> heap[queue[k]].nextRetryAt]]]

\* queue.splice(i, 1), i a JavaScript index
Splice(q, i) ==
    IF i < Len(q) THEN SubSeq(q, 1, i) \o SubSeq(q, i + 2, Len(q)) ELSE q

\* BACKOFF_MS[item.attempts] || BACKOFF_MS[BACKOFF_MS.length - 1]
Backoff(attempts) ==
    LET v == IF attempts < Len(BACKOFF_MS) THEN BACKOFF_MS[attempts + 1] ELSE 0
    IN  IF v # 0 THEN v ELSE BACKOFF_MS[Len(BACKOFF_MS)]

\* The for loop from index i down to the next item it attempts: -1 when the
\* loop ends, -2 when queue[i] is undefined (the read of item.nextRetryAt
\* throws and the invocation ends).
RECURSIVE NextDue(_, _, _, _)
NextDue(q, h, now, i) ==
    IF i < 0 THEN -1
    ELSE IF i >= Len(q) THEN -2
    ELSE IF h[q[i + 1]].nextRetryAt > now THEN NextDue(q, h, now, i - 1)
    ELSE i

\* The loop of invocation p resumes at index i over queue q and heap h and
\* runs to its next `await item.writeFn()` (attempts++ just before), or ends;
\* t is the time at which it does.
RunLoop(p, q, h, now, i, t) ==
    LET j == NextDue(q, h, now, i) IN
    /\ queue' = q
    /\ IF j < 0
         THEN /\ heap' = h
              /\ passes' = [passes EXCEPT ![p] = NoPass]
         ELSE /\ heap' = [h EXCEPT ![q[j + 1]].attempts = @ + 1]
              /\ passes' = [passes EXCEPT ![p] =
                    [active |-> TRUE, now |-> now, i |-> j, item |-> q[j + 1],
                     since |-> t]]

IsTickTime(t) ==
    /\ intervalId.running
    /\ t > intervalId.startedAt
    /\ (t - intervalId.startedAt) % POLL_INTERVAL_MS = 0

FreePasses == {p \in PassIds : ~passes[p].active}

\* no awaited write function is past its time budget at time t, and the
\* clock is followed while it can matter: an item is queued, an invocation is
\* suspended, or an enqueue call can still come
WritesWithinBudget(t) ==
    /\ \A p \in PassIds : passes[p].active => t <= passes[p].since + MaxWriteMs
    /\ \/ queue # <<>>
       \/ \E p \in PassIds : passes[p].active
       \/ t <= MaxEnqueueTick * POLL_INTERVAL_MS

\* the first time the timer fires at or after time t
TickAtOrAfter(t) ==
    IF t <= intervalId.startedAt THEN intervalId.startedAt + POLL_INTERVAL_MS
    ELSE intervalId.startedAt
           + ((t - intervalId.startedAt + POLL_INTERVAL_MS - 1) \div POLL_INTERVAL_MS)
               * POLL_INTERVAL_MS

\* the earliest nextRetryAt among the queued items
EarliestRetryAt ==
    LET at(k) == heap[queue[k]].nextRetryAt
        k0 == CHOOSE k \in 1..Len(queue) : \A l \in 1..Len(queue) : at(k) <= at(l)
    IN  at(k0)

\* the last firing of the timer before the one at which an item is due
LastIdleTick == TickAtOrAfter(EarliestRetryAt) - POLL_INTERVAL_MS

\* Nothing can happen before an item is due: no invocation is suspended, the
\* calls and the outage changes are over, and the timer's firings up to
\* LastIdleTick find every item with nextRetryAt > now and skip it.
Idle ==
    /\ intervalId.running
    /\ queue # <<>>
    /\ \A p \in PassIds : ~passes[p].active
    /\ clock > MaxEnqueueTick * POLL_INTERVAL_MS
    /\ clock > MaxOutageTick * POLL_INTERVAL_MS
    /\ clock < LastIdleTick

\* the timer fires with no item due, until the last such firing
IdleTicks ==
    /\ Idle
    /\ LastIdleTick <= MaxTicks * POLL_INTERVAL_MS
    /\ clock' = LastIdleTick
    /\ UNCHANGED <<queue, heap, intervalId, passes, itemLog, enqueueLog, outage>>
    /\ UNCHANGED notQueue

\* time passes without the timer firing
Advance ==
    /\ intervalId.running
    /\ ~Idle
    /\ clock < MaxTicks * POLL_INTERVAL_MS
    /\ WritesWithinBudget(clock + TimeStep)
    /\ ~IsTickTime(clock + TimeStep)
    /\ clock' = clock + TimeStep
    /\ UNCHANGED <<queue, heap, intervalId, passes, itemLog, enqueueLog, outage>>
    /\ UNCHANGED notQueue

\* the timer fires: _processQueue() runs up to its first await
Tick ==
    /\ ~Idle
    /\ clock < MaxTicks * POLL_INTERVAL_MS
    /\ WritesWithinBudget(clock + TimeStep)
    /\ IsTickTime(clock + TimeStep)
    /\ clock' = clock + TimeStep
    /\ IF queue = <<>> \/ NextDue(queue, heap, clock', Len(queue) - 1) < 0
         THEN UNCHANGED <<queue, heap, passes>>
         ELSE /\ FreePasses # {}
              /\ LET p == CHOOSE f \in FreePasses : \A g \in FreePasses : f <= g
                 IN  RunLoop(p, queue, heap, clock', Len(queue) - 1, clock')
    /\ UNCHANGED <<intervalId, itemLog, enqueueLog, outage>>
    /\ UNCHANGED notQueue

\* what `await item.writeFn()` does when it settles
WriteFnThrows(writeFn) == writeFn = "alwaysThrows" \/ outage

\* the awaited writeFn resolved: splice(i, 1), log, on with the loop
SettleResolved(p) ==
    /\ passes[p].active
    /\ ~WriteFnThrows(heap[passes[p].item].writeFn)
    /\ itemLog' = [itemLog EXCEPT ![passes[p].item].resolved = @ + 1]
    /\ RunLoop(p, Splice(queue, passes[p].i), heap, passes[p].now, passes[p].i - 1, clock)
    /\ UNCHANGED <<intervalId, clock, enqueueLog, outage>>
    /\ UNCHANGED notQueue

\* the awaited writeFn threw with attempts at the maximum: DEAD_LETTER record,
\* splice(i, 1), on with the loop
SettleDeadLetter(p) ==
    /\ passes[p].active
    /\ WriteFnThrows(heap[passes[p].item].writeFn)
    /\ heap[passes[p].item].attempts >= MAX_RETRIES
    /\ itemLog' = [itemLog EXCEPT ![passes[p].item].failed = @ + 1,
                                  ![passes[p].item].dead = @ + 1]
    /\ RunLoop(p, Splice(queue, passes[p].i), heap, passes[p].now, passes[p].i - 1, clock)
    /\ UNCHANGED <<intervalId, clock, enqueueLog, outage>>
    /\ UNCHANGED notQueue

\* the awaited writeFn threw below the maximum: nextRetryAt = now + backoff
SettleRescheduled(p) ==
    /\ passes[p].active
    /\ WriteFnThrows(heap[passes[p].item].writeFn)
    /\ heap[passes[p].item].attempts < MAX_RETRIES
    /\ itemLog' = [itemLog EXCEPT ![passes[p].item].failed = @ + 1]
    /\ RunLoop(p, queue,
               [heap EXCEPT ![passes[p].item].nextRetryAt =
                    passes[p].now + Backoff(heap[passes[p].item].attempts)],
               passes[p].now, passes[p].i - 1, clock)
    /\ UNCHANGED <<intervalId, clock, enqueueLog, outage>>
    /\ UNCHANGED notQueue

\* the backend behind the "store" write functions comes back
OutageLifted ==
    /\ outage
    /\ clock <= MaxOutageTick * POLL_INTERVAL_MS
    /\ outage' = FALSE
    /\ UNCHANGED <<queue, heap, intervalId, clock, passes, itemLog, enqueueLog>>
    /\ UNCHANGED notQueue

QueueNext ==
    \/ \E o \in OperationIds, w \in WriteFns : enqueue(o, w)
    \/ Advance
    \/ IdleTicks
    \/ Tick
    \/ \E p \in PassIds : SettleResolved(p)
    \/ \E p \in PassIds : SettleDeadLetter(p)
    \/ \E p \in PassIds : SettleRescheduled(p)
    \/ OutageLifted

(***************************************************************************)
(* webhook -> handler -> buildWriteBoth / tryWriteOrQueue                  *)
(***************************************************************************)

\* webhook calls in flight together, in the order they arrive
ReqOrder == <<"r1", "r2">>

Reqs == {ReqOrder[k] : k \in 1..Len(ReqOrder)}

\* a caller that invokes createOrUpdateLead directly, one call after another
Upserters == {"u"}

\* documents the 'leads' collection can hold in a run
MaxDocs == 2

\* createOrUpdateLead calls the direct caller makes in a row
MaxUpsertCalls == 2

\* webhook calls arrive during the first MaxRequestTick poll intervals
MaxRequestTick == 1

\* calls the direct callers of the store make in a run, in flight together
MaxStoreCalls == 2

\* calls the one caller makes in a run when each follows the one before
MaxSeqCalls == 3

DocIds == 1..MaxDocs

Digits == {"0", "1", "2", "3", "4", "5", "6", "7", "8", "9"}

IsDigit(ch) == ch \in Digits

\* phone.toString().replace(/\D/g, ''); '' for a missing phone
normalizePhone(phone) == SelectSeq(phone, IsDigit)

\* phoneNumber.toString().replace(/\D/g, '').slice(-10)
getLastTenDigits(phoneNumber) ==
    LET d == SelectSeq(phoneNumber, IsDigit)
    IN  IF Len(d) <= 10 THEN d ELSE SubSeq(d, Len(d) - 9, Len(d))

\* a comparison of the two values as they were given
phoneNumbersMatch_Exact(num1, num2) == num1 = num2

phoneNumbersMatch(num1, num2) == getLastTenDigits(num1) = getLastTenDigits(num2)

LocalNumber == <<"9", "8", "7", "6", "5", "4", "3", "2", "1", "0">>

\* ---- the helpers called with any JavaScript value ----

\* the values a caller can pass for a phone: null, undefined, or a string
JsNull == [kind |-> "null", chars |-> <<>>]

JsUndefined == [kind |-> "undefined", chars |-> <<>>]

JsString(chars) == [kind |-> "string", chars |-> chars]

\* `value.toString()` is a TypeError on null and undefined
ToStringThrows(value) == value.kind \in {"null", "undefined"}

\* `!value` for these values
Falsy(value) == value.kind \in {"null", "undefined"} \/ value.chars = <<>>

\* what a helper call came to: a thrown TypeError, or the key returned (and
\* for phoneNumbersMatch the boolean)
HelperThrew == [threw |-> TRUE, key |-> <<>>, match |-> FALSE]

HelperReturned(key, match) == [threw |-> FALSE, key |-> key, match |-> match]

\* normalizePhone(phone): `if (!phone) return ''` comes before toString()
normalizePhoneCall(phone) ==
    IF Falsy(phone) THEN HelperReturned(<<>>, FALSE)
    ELSE HelperReturned(normalizePhone(phone.chars), FALSE)

\* getLastTenDigits(phoneNumber): toString() is called on the argument as
\* it is
getLastTenDigitsCall(phoneNumber) ==
    IF ToStringThrows(phoneNumber) THEN HelperThrew
    ELSE HelperReturned(getLastTenDigits(phoneNumber.chars), FALSE)

\* phoneNumbersMatch(num1, num2): two getLastTenDigits calls compared
phoneNumbersMatchCall(num1, num2) ==
    IF getLastTenDigitsCall(num1).threw \/ getLastTenDigitsCall(num2).threw
      THEN HelperThrew
    ELSE HelperReturned(<<>>, getLastTenDigitsCall(num1).key
                                = getLastTenDigitsCall(num2).key)

\* the helper calls followed
MaxHelperCalls == 2

\* the arguments: null, undefined, '', a text without digits, and a number
\* with and without its country code
HelperInputs ==
    {JsNull, JsUndefined, JsString(<<>>), JsString(<<"n", "/", "a">>),
     JsString(<<"+", "9", "1">> \o LocalNumber), JsString(LocalNumber)}

\* one of the three helpers is called and settles
HelperCall(fn, num1, num2) ==
    /\ Len(helperLog) < MaxHelperCalls
    /\ fn \in {"normalizePhone", "getLastTenDigits"} => num2 = JsUndefined
    /\ helperLog' = Append(helperLog,
          [fn |-> fn, num1 |-> num1, num2 |-> num2,
           result |-> IF fn = "normalizePhone" THEN normalizePhoneCall(num1)
                      ELSE IF fn = "getLastTenDigits" THEN getLastTenDigitsCall(num1)
                      ELSE phoneNumbersMatchCall(num1, num2)])
    /\ UNCHANGED <<mutexVars, queueVars, leadVars, dedupVars, sheetEdit>>

HelperNext ==
    \E fn \in {"normalizePhone", "getLastTenDigits", "phoneNumbersMatch"},
       num1, num2 \in HelperInputs : HelperCall(fn, num1, num2)

\* another subscriber
OtherNumber == <<"9", "8", "1", "2", "3", "4", "5", "6", "7", "8">>

\* the phones leads come with: with country code, without, and too short
WaIdInputs == {<<"9", "1">> \o LocalNumber, LocalNumber, <<"1", "2", "3", "4", "5">>}

\* the waId values of the webhook bodies followed
EventWaIds == {<<"9", "1">> \o LocalNumber, <<"1", "2", "3", "4", "5">>}

\* config.EVENT_TYPES.NEW_CONTACT
NEW_CONTACT == "newContactMessageReceived"

\* config.LIST_REPLY_IDS.INTERESTED
INTERESTED == "EPXcDmp"

MessageIds == {"", "wamid-1"}

\* The webhook bodies followed: a new-contact event, a list reply 'interested'
\* and a plain message; the text matches no keyword and there is no sourceUrl.
Events ==
    {[eventType |-> s[1], listReplyId |-> s[2], text |-> s[3],
      waId |-> w, messageId |-> m] :
        s \in {<<NEW_CONTACT, "", "">>, <<"message", INTERESTED, "hello">>,
               <<"message", "", "hello">>},
        w \in EventWaIds, m \in MessageIds}

\* generateEventId(params): params.timestamp is absent, so Date.now() is used
generateEventId(params) ==
    IF params.messageId # ""
      THEN [type |-> "msg", id |-> params.messageId, waId |-> <<>>, bucket |-> 0]
      ELSE [type |-> params.eventType, id |-> "", waId |-> params.waId,
            bucket |-> clock \div 10000]

\* the if / else-if chain of the webhook, for the bodies of Events
Dispatch(params) ==
    IF params.eventType = NEW_CONTACT THEN "handleNewContact"
    ELSE IF params.listReplyId = INTERESTED THEN "handleInterestedUser"
    ELSE "none"

\* validatePhoneNumber does not throw
ValidPhone(phone) == phone # <<>> /\ Len(normalizePhone(phone)) >= 10

\* ---- the duplicate check of the webhook over hours ----

\* the period of the sweep and the age it deletes at, in ms
SWEEP_INTERVAL == 3600000

\* the deliveries followed arrive half an hour apart, or together
HalfHour == 1800000

MaxHalfHours == 5

MaxDeliveries == 4

\* The webhook bodies followed over hours: a new-contact event, a list reply
\* with a message id, a flow reply, a login of the Live app and a sheet edit
\* that carries its own timestamp (0 stands for no timestamp)
DedupEvents ==
    {[eventType |-> NEW_CONTACT, event |-> "", type |-> "", listReplyId |-> "",
      waId |-> LocalNumber, messageId |-> "", timestamp |-> 0],
     [eventType |-> "message", event |-> "", type |-> "", listReplyId |-> INTERESTED,
      waId |-> LocalNumber, messageId |-> "wamid-1", timestamp |-> 0],
     [eventType |-> "", event |-> "", type |-> "whatsapp_flow_reply",
      listReplyId |-> "", waId |-> LocalNumber, messageId |-> "", timestamp |-> 0],
     [eventType |-> "", event |-> "user_login", type |-> "", listReplyId |-> "",
      waId |-> <<>>, messageId |-> "", timestamp |-> 0],
     [eventType |-> "sheet_edit", event |-> "", type |-> "", listReplyId |-> "",
      waId |-> <<>>, messageId |-> "", timestamp |-> 1000]}

\* params.type || params.eventType || params.event || ''
EventTypeOf(params) ==
    IF params.type # "" THEN params.type
    ELSE IF params.eventType # "" THEN params.eventType
    ELSE params.event

\* generateEventId(params) for the bodies of DedupEvents
eventIdOf(params) ==
    LET timestamp == IF params.timestamp # 0 THEN params.timestamp ELSE clock
    IN  IF params.messageId # "" THEN generateEventId(params)
        ELSE IF EventTypeOf(params) = "whatsapp_flow_reply"
          THEN [type |-> "flow", id |-> "", waId |-> params.waId, bucket |-> 0]
        ELSE IF EventTypeOf(params) = "sheet_edit"
          THEN [type |-> "sheet_edit", id |-> "", waId |-> <<>>, bucket |-> timestamp]
        ELSE [type |-> EventTypeOf(params), id |-> "", waId |-> params.waId,
              bucket |-> timestamp \div 10000]

\* the events that are never checked against processedEvents
skipDuplicateCheck(params) ==
    params.event = "user_login" \/ params.eventType = "sheet_edit"

\* the if / else-if chain of the webhook, for the bodies of DedupEvents
DispatchOf(params) ==
    IF params.eventType = "sheet_edit" THEN "handleSheetEdit"
    ELSE IF Dispatch(params) # "none" THEN Dispatch(params)
    ELSE IF params.type = "whatsapp_flow_reply" THEN "handleFlowReply"
    ELSE IF params.event = "user_login" THEN "handleUserLogin"
    ELSE "none"

\* POST /webhook with body params, as far as the choice of the handler
Delivery(params) ==
    /\ Len(deliveries) < MaxDeliveries
    /\ LET eventId == eventIdOf(params)
           duplicate == /\ ~skipDuplicateCheck(params)
                        /\ \E e \in eventStamps : e.key = eventId
           recorded == ~skipDuplicateCheck(params) /\ ~duplicate
       IN  /\ eventStamps' = IF recorded
                 THEN eventStamps \cup {[key |-> eventId, timestamp |-> clock]}
                 ELSE eventStamps
           /\ processedEvents' = IF recorded
                 THEN processedEvents \cup {eventId}
                 ELSE processedEvents
           /\ deliveries' = Append(deliveries,
                 [params |-> params, eventId |-> eventId, at |-> clock,
                  message |-> IF duplicate THEN "duplicate_ignored" ELSE "",
                  handler |-> IF duplicate THEN "none" ELSE DispatchOf(params)])
    /\ UNCHANGED <<leads, leadCounter, sheetRows, fsDown, shDown, task>>
    /\ UNCHANGED <<mutexVars, queueVars, helperLog, sheetEdit>>

Swept_AtHalfTheAge(entries, now) ==
    {e \in entries : ~(e.timestamp < now - (SWEEP_INTERVAL \div 2))}

\* the entries the sweep leaves at time `now`
Swept(entries, now) ==
    {e \in entries : ~(e.timestamp < now - SWEEP_INTERVAL)}

\* half an hour passes; the sweep timer fires on every full hour
DedupTimePasses ==
    /\ clock < MaxHalfHours * HalfHour
    /\ clock' = clock + HalfHour
    /\ eventStamps' = IF clock' % SWEEP_INTERVAL = 0
                        THEN Swept(eventStamps, clock') ELSE eventStamps
    /\ processedEvents' = IF clock' % SWEEP_INTERVAL = 0
          THEN {e.key : e \in Swept(eventStamps, clock')}
          ELSE processedEvents
    /\ UNCHANGED <<leads, leadCounter, sheetRows, fsDown, shDown, task>>
    /\ UNCHANGED <<queue, heap, intervalId, passes, itemLog, enqueueLog, outage>>
    /\ UNCHANGED <<mutexVars, helperLog, deliveries, sheetEdit>>

DedupNext ==
    \/ \E params \in DedupEvents : Delivery(params)
    \/ DedupTimePasses

NoOperation == [kind |-> "", phone |-> <<>>, at |-> 0]

\* a business id 'CG…': the counter series 'CG00001', or the timestamp series;
\* `ms` tells apart two Date.now() readings of the same clock value
NoCgId == [series |-> "", n |-> 0, ms |-> 0]

\* the `updates` of updateLead: the joined message, and one other field
NoUpdates ==
    [hasMessage |-> FALSE, message |-> <<>>, hasName |-> FALSE, name |-> "",
     hasRegiNo |-> FALSE, regiNo |-> <<>>, field |-> "", value |-> ""]

\* the form a submission carries: form_num, option, and the status the
\* handler derives from the option
NoForm == [formNum |-> <<>>, option |-> "", statusValue |-> ""]

\* when updateLead read nowISO(), and the history it had found by then
NoStamp == [clock |-> 0, seen |-> 0]

\* the { docId, cgId } of the last answer a direct caller got
NoLast == [docId |-> 0, cgId |-> NoCgId]

\* the edit processEdit is given; `isString` is false for a newValue that
\* came as a JSON number
NoEdit == [field |-> "", newValue |-> "", isString |-> TRUE]

\* a caller outside any call; the fields are the locals of the call chain
\* webhook -> handler -> writeFn -> createOrUpdateLead / upsertContact, and
\* what the call has done so far
NoTask ==
    [pc |-> "idle", handler |-> "none", phone |-> <<>>, message |-> "",
     historyAction |-> "", operationId |-> NoOperation, updates |-> NoUpdates,
     docId |-> 0, cgId |-> NoCgId, row |-> 0, errors |-> {},
     attempted |-> {}, fsFailed |-> FALSE, results |-> <<>>, inserts |-> 0,
     threw |-> FALSE, enq |-> "none", response |-> "none",
     op |-> "", stamp |-> NoStamp, peerCgId |-> NoCgId, last |-> NoLast,
     edit |-> NoEdit, repeat |-> FALSE, name |-> "", form |-> NoForm,
     sidePending |-> {}, sideFailed |-> {}]

\* callers that invoke the firestoreService functions and processEdit directly
StoreCallers == {"a", "b"}

\* the promises fireAndForgetFirestore leaves running, in the order started
WorkerOrder == <<"w1", "w2">>

Workers == {WorkerOrder[k] : k \in 1..Len(WorkerOrder)}

Tasks == Reqs \cup Upserters \cup StoreCallers \cup Workers

\* both stores empty and reachable, nothing received yet
LeadStart ==
    [leads |-> <<>>, leadCounter |-> 0, sheetRows |-> <<>>,
     fsDown |-> FALSE, shDown |-> FALSE, processedEvents |-> {},
     task |-> [t \in Tasks |-> NoTask]]

\* ---- firestoreService ----

\* Documents are numbered in the order they were added; the id that add()
\* generated for document d sorts before that of document e. A document
\* records in `before` which of the documents it found its id sorts before.
Precedes(d, e) ==
    IF d > e THEN e \in leads[d].before ELSE d \notin leads[e].before

\* the place of document d when the collection is listed by id
Rank(d) == 1 + Cardinality({e \in DOMAIN leads : e # d /\ Precedes(e, d)})

\* a lookup that answers from a cache when the store is unreachable
findLeadByPhone_AnswersInOutage(phone) ==
    LET phoneNorm == normalizePhone(phone)
        found == {d \in DOMAIN leads : leads[d].phoneNormalized = phoneNorm}
    IN  IF Len(phoneNorm) < 10 \/ found = {} THEN 0
        ELSE CHOOSE d \in found : \A e \in found \ {d} : Precedes(d, e)

\* findLeadByPhone(phone): the docId found, 0 for null. The query has
\* limit(1) and no orderBy, so it answers the match whose id sorts first;
\* when it throws, the catch logs the error and returns null.
findLeadByPhone(phone) ==
    LET phoneNorm == normalizePhone(phone)
        found == {d \in DOMAIN leads : leads[d].phoneNormalized = phoneNorm}
    IN  IF Len(phoneNorm) < 10 \/ fsDown \/ found = {} THEN 0
        ELSE CHOOSE d \in found : \A e \in found \ {d} : Precedes(d, e)

\* the query of findLeadByPhone threw (and null was returned for that)
FindThrows(phone) == Len(normalizePhone(phone)) >= 10 /\ fsDown

\* a createLead that lacks the phone check
ValidLeadPhone_Any(phone) == TRUE

\* createLead: `!phoneNorm || phoneNorm.length < 10` is false
ValidLeadPhone(phone) == Len(normalizePhone(phone)) >= 10

\* results that carry a { docId, cgId }
Answers == {"created", "exists", "updated", "history_added", "synced"}

\* The function called returns `result` to its caller: the direct caller has
\* its answer; buildWriteBoth goes on to SheetService.upsertContact(leadData);
\* what a fire-and-forget promise settles with is dropped
Returned(rec, result) ==
    LET back == [rec EXCEPT !.results = Append(@, result), !.updates = NoUpdates,
                            !.docId = 0, !.cgId = NoCgId, !.stamp = NoStamp,
                            !.peerCgId = NoCgId,
                            !.last = IF rec.handler # "direct" THEN @
                                     ELSE IF result \in Answers
                                       THEN [docId |-> rec.docId, cgId |-> rec.cgId]
                                     ELSE NoLast]
    IN  IF rec.handler = "background" THEN NoTask
        ELSE IF rec.handler = "direct" THEN [back EXCEPT !.pc = "idle"]
        ELSE [back EXCEPT !.pc = "sh_find", !.attempted = @ \cup {"sheet"}]

\* createLead returns: processEdit goes on to verify unless it got null
CreateLeadReturned(rec, result) ==
    IF rec.op # "processEdit" THEN Returned(rec, result)
    ELSE IF result = "null" THEN Returned(rec, "create_failed")
    ELSE [rec EXCEPT !.pc = "pe_verify", !.docId = 0, !.cgId = NoCgId,
                     !.peerCgId = NoCgId]

\* updateLead returns: processEdit turns the answer into its own; its last
\* statement, `(newValue || '').substring(0, 30)`, throws a TypeError for a
\* newValue that is a number
UpdateLeadReturned(rec, result) ==
    IF rec.op # "processEdit" THEN Returned(rec, result)
    ELSE Returned(rec, IF result = "null" THEN "update_failed"
                       ELSE IF ~rec.edit.isString THEN "threw"
                       ELSE "synced")

\* an updateLead that creates the lead it did not find
UpdateLeadMissing_Creates(rec) == [rec EXCEPT !.pc = "cl_cgid"]

\* updateLead: `if (!existing) return null`
UpdateLeadMissing(rec) == UpdateLeadReturned(rec, "null")

\* `updates` that take every incoming field as it is, empty ones too
MergeUpdates_Overwrite(data, name, message) ==
    [NoUpdates EXCEPT
        !.hasMessage = TRUE,
        !.message = IF message = "" THEN <<>> ELSE <<message>>,
        !.hasName = TRUE,
        !.name = name]

\* the `updates` createOrUpdateLead builds from the lead it found: a name
\* that is not empty, and a message that is not empty joined to the current
\* one (the joined text is kept as the sequence of its parts)
MergeUpdates(data, name, message) ==
    [NoUpdates EXCEPT
        !.hasMessage = message # "",
        !.message = IF message = "" THEN <<>> ELSE data.message \o <<message>>,
        !.hasName = name # "",
        !.name = name]

\* an update that stores the entry as the whole history
ArrayUnion_Replace(history, entry) == <<entry>>

\* FieldValue.arrayUnion(entry)
ArrayUnion(history, entry) ==
    IF \E k \in 1..Len(history) : history[k] = entry THEN history
    ELSE Append(history, entry)

\* a docRef.set(payload) in place of update: the other fields are lost
ApplyUpdate_Set(doc, updates, entry) ==
    [doc EXCEPT !.cgId = NoCgId,
                !.message = IF updates.hasMessage THEN updates.message ELSE <<>>,
                !.history = <<entry>>]

\* the document after docRef.update({...updates, updatedAt, history})
ApplyUpdate(doc, updates, entry) ==
    LET set == IF updates.field = "" THEN doc
               ELSE [doc EXCEPT ![updates.field] = updates.value]
    IN  [set EXCEPT !.message = IF updates.hasMessage THEN updates.message ELSE @,
                    !.name = IF updates.hasName THEN updates.name ELSE @,
                    !.regiNo = IF updates.hasRegiNo THEN updates.regiNo ELSE @,
                    !.history = ArrayUnion(@, entry)]

\* The values nowISO() can have given for a history entry: a millisecond
\* later than every entry of `history`, or the millisecond of an entry that
\* was added since this call read the clock.
Stamps(rec, history) ==
    {[clock |-> rec.stamp.clock, ms |-> Len(history)]}
    \cup {history[k].at : k \in {j \in 1..Len(history) :
                                    /\ j > rec.stamp.seen
                                    /\ history[j].action = rec.historyAction
                                    /\ history[j].at.clock = rec.stamp.clock}}

\* createOrUpdateLead: `existing = await findLeadByPhone(phone)` answers
CouFind(t) ==
    /\ task[t].pc = "cou_find"
    /\ LET existing == findLeadByPhone(task[t].phone)
           rec == [task[t] EXCEPT !.fsFailed = @ \/ FindThrows(task[t].phone)]
       IN  task' = [task EXCEPT ![t] =
              IF existing # 0
                THEN [rec EXCEPT !.pc = "upd_find",
                                 !.updates = MergeUpdates(leads[existing], rec.name,
                                                          rec.message)]
              ELSE IF ~ValidLeadPhone(rec.phone)
                THEN Returned(rec, "null")
              ELSE [rec EXCEPT !.pc = "cl_find"]]
    /\ UNCHANGED <<leads, leadCounter, sheetRows, fsDown, shDown, processedEvents>>
    /\ UNCHANGED <<mutexVars, queueVars, auxVars>>

\* updateLead: its own findLeadByPhone answers; null is 'not found'. The
\* payload is built, nowISO() is read, and docRef.update is called.
UpdFind(t) ==
    /\ task[t].pc = "upd_find"
    /\ LET existing == findLeadByPhone(task[t].phone)
           rec == [task[t] EXCEPT !.fsFailed = @ \/ FindThrows(task[t].phone)]
       IN  task' = [task EXCEPT ![t] =
              IF existing = 0 THEN UpdateLeadMissing(rec)
              ELSE [rec EXCEPT !.pc = "upd_write", !.docId = existing,
                               !.cgId = leads[existing].cgId,
                               !.stamp = [clock |-> clock,
                                          seen |-> Len(leads[existing].history)]]]
    /\ UNCHANGED <<leads, leadCounter, sheetRows, fsDown, shDown, processedEvents>>
    /\ UNCHANGED <<mutexVars, queueVars, auxVars>>

\* updateLead: docRef.update(payload) settles
UpdWrite(t) ==
    /\ task[t].pc = "upd_write"
    /\ IF fsDown
         THEN /\ task' = [task EXCEPT ![t] =
                    UpdateLeadReturned([task[t] EXCEPT !.fsFailed = TRUE], "null")]
              /\ UNCHANGED leads
         ELSE \E at \in Stamps(task[t], leads[task[t].docId].history) :
              /\ leads' = [leads EXCEPT ![task[t].docId] =
                    ApplyUpdate(@, task[t].updates,
                                [action |-> task[t].historyAction, at |-> at])]
              /\ task' = [task EXCEPT ![t] = UpdateLeadReturned(task[t], "updated")]
    /\ UNCHANGED <<leadCounter, sheetRows, fsDown, shDown, processedEvents>>
    /\ UNCHANGED <<mutexVars, queueVars, auxVars>>

\* addHistory: its findLeadByPhone answers; the entry is built with nowISO()
AhFind(t) ==
    /\ task[t].pc = "ah_find"
    /\ LET existing == findLeadByPhone(task[t].phone)
           rec == [task[t] EXCEPT !.fsFailed = @ \/ FindThrows(task[t].phone)]
       IN  task' = [task EXCEPT ![t] =
              IF existing = 0 THEN Returned(rec, "null")
              ELSE [rec EXCEPT !.pc = "ah_write", !.docId = existing,
                               !.cgId = leads[existing].cgId,
                               !.stamp = [clock |-> clock,
                                          seen |-> Len(leads[existing].history)]]]
    /\ UNCHANGED <<leads, leadCounter, sheetRows, fsDown, shDown, processedEvents>>
    /\ UNCHANGED <<mutexVars, queueVars, auxVars>>

\* addHistory: the update({updatedAt, history: arrayUnion(...)}) settles
AhWrite(t) ==
    /\ task[t].pc = "ah_write"
    /\ IF fsDown
         THEN /\ task' = [task EXCEPT ![t] =
                    Returned([task[t] EXCEPT !.fsFailed = TRUE], "null")]
              /\ UNCHANGED leads
         ELSE \E at \in Stamps(task[t], leads[task[t].docId].history) :
              /\ leads' = [leads EXCEPT ![task[t].docId] =
                    ApplyUpdate(@, NoUpdates,
                                [action |-> task[t].historyAction, at |-> at])]
              /\ task' = [task EXCEPT ![t] = Returned(task[t], "history_added")]
    /\ UNCHANGED <<leadCounter, sheetRows, fsDown, shDown, processedEvents>>
    /\ UNCHANGED <<mutexVars, queueVars, auxVars>>

\* createLead: its own findLeadByPhone answers
ClFind(t) ==
    /\ task[t].pc = "cl_find"
    /\ LET existing == findLeadByPhone(task[t].phone)
           rec == [task[t] EXCEPT !.fsFailed = @ \/ FindThrows(task[t].phone)]
       IN  task' = [task EXCEPT ![t] =
              IF existing # 0
                THEN CreateLeadReturned([rec EXCEPT !.docId = existing,
                                                    !.cgId = leads[existing].cgId],
                                        "exists")
              ELSE [rec EXCEPT !.pc = "cl_cgid"]]
    /\ UNCHANGED <<leads, leadCounter, sheetRows, fsDown, shDown, processedEvents>>
    /\ UNCHANGED <<mutexVars, queueVars, auxVars>>

\* the ids that leads have and that calls in flight hold
KnownCgIds ==
    ({leads[d].cgId : d \in DOMAIN leads} \cup {task[q].cgId : q \in Tasks})
    \ {NoCgId}

\* The ids the catch of getNextCgId can build from Date.now(): a millisecond
\* later than that of every id around, or the one in which another call's id
\* was built while this call was waiting for its transaction.
FallbackIds(rec) ==
    {[series |-> "ts", n |-> clock,
      ms |-> Cardinality({id \in KnownCgIds : id.series = "ts" /\ id.n = clock})]}
    \cup {id \in {rec.peerCgId} : id # NoCgId /\ id.n = clock}

\* getNextCgId: the counter transaction, or the timestamp id when it fails
ClCgId(t) ==
    /\ task[t].pc = "cl_cgid"
    /\ IF fsDown
         THEN \E id \in FallbackIds(task[t]) :
              /\ task' = [q \in Tasks |->
                    IF q = t
                      THEN [task[t] EXCEPT !.pc = "cl_add", !.cgId = id,
                                           !.peerCgId = NoCgId]
                    ELSE IF task[q].pc = "cl_cgid"
                      THEN [task[q] EXCEPT !.peerCgId = id]
                    ELSE task[q]]
              /\ UNCHANGED leadCounter
         ELSE /\ leadCounter' = leadCounter + 1
              /\ task' = [task EXCEPT
                    ![t].pc = "cl_add",
                    ![t].cgId = [series |-> "seq", n |-> leadCounter + 1, ms |-> 0],
                    ![t].peerCgId = NoCgId]
    /\ UNCHANGED <<leads, sheetRows, fsDown, shDown, processedEvents>>
    /\ UNCHANGED <<mutexVars, queueVars, auxVars>>

\* the document createLead adds
NewLead(rec) ==
    [phoneNormalized |-> normalizePhone(rec.phone),
     cgId            |-> rec.cgId,
     name            |-> rec.name,
     regiNo          |-> rec.form.formNum,
     status          |-> IF rec.form.statusValue = "" THEN "Lead"
                         ELSE rec.form.statusValue,
     message         |-> IF rec.message = "" THEN <<>> ELSE <<rec.message>>,
     history         |-> <<[action |-> "lead_created",
                            at |-> [clock |-> clock, ms |-> 0]]>>,
     before          |-> {}]

\* createLead: collection.add(doc) settles; the id generated for the new
\* document puts it in place `id` when the collection is listed by id
ClAdd(t, id) ==
    /\ task[t].pc = "cl_add"
    /\ Len(leads) < MaxDocs
    /\ id <= Len(leads) + 1
    /\ IF fsDown
         THEN /\ task' = [task EXCEPT ![t] =
                    CreateLeadReturned([task[t] EXCEPT !.fsFailed = TRUE], "null")]
              /\ UNCHANGED leads
         ELSE /\ leads' = Append(leads,
                    [NewLead(task[t]) EXCEPT
                        !.before = {d \in DOMAIN leads : Rank(d) >= id}])
              /\ task' = [task EXCEPT ![t] =
                    CreateLeadReturned([task[t] EXCEPT !.inserts = @ + 1,
                                                       !.docId = Len(leads) + 1],
                                       "created")]
    /\ UNCHANGED <<leadCounter, sheetRows, fsDown, shDown, processedEvents>>
    /\ UNCHANGED <<mutexVars, queueVars, auxVars>>

\* ---- syncHandler.processEdit ----

\* FIELD_MAP[field], "" for undefined
FIELD_MAP(field) ==
    IF field \in {"name", "location", "status", "rating", "remark"} THEN field
    ELSE IF field = "team" THEN "agent"
    ELSE IF field = "team_2" THEN "team2"
    ELSE IF field = "status_2" THEN "status2"
    ELSE IF field = "remark_2" THEN "remark2"
    ELSE ""

\* processEdit calls updateLead(phone, {[firestoreField]: newValue}, entry)
EditUpdate(rec) ==
    [rec EXCEPT !.pc = "upd_find",
                !.updates = [NoUpdates EXCEPT !.field = FIELD_MAP(rec.edit.field),
                                              !.value = rec.edit.newValue]]

\* processEdit: `existing = await findLeadByPhone(phone)` answers; a missing
\* lead is created first
PeFind(t) ==
    /\ task[t].pc = "pe_find"
    /\ LET existing == findLeadByPhone(task[t].phone)
           rec == [task[t] EXCEPT !.fsFailed = @ \/ FindThrows(task[t].phone)]
       IN  task' = [task EXCEPT ![t] =
              IF existing = 0 THEN [rec EXCEPT !.pc = "cl_find"]
              ELSE EditUpdate(rec)]
    /\ UNCHANGED <<leads, leadCounter, sheetRows, fsDown, shDown, processedEvents>>
    /\ UNCHANGED <<mutexVars, queueVars, auxVars>>

\* processEdit: the findLeadByPhone after createLead answers
PeVerify(t) ==
    /\ task[t].pc = "pe_verify"
    /\ LET existing == findLeadByPhone(task[t].phone)
           rec == [task[t] EXCEPT !.fsFailed = @ \/ FindThrows(task[t].phone)]
       IN  task' = [task EXCEPT ![t] =
              IF existing = 0 THEN Returned(rec, "create_verification_failed")
              ELSE EditUpdate(rec)]
    /\ UNCHANGED <<leads, leadCounter, sheetRows, fsDown, shDown, processedEvents>>
    /\ UNCHANGED <<mutexVars, queueVars, auxVars>>

\* ---- SheetService.upsertContact ----

\* findByPhone(phone): the first row whose phone has the same last ten
\* digits, 0 for null
findByPhone(phone) ==
    LET found == {k \in 1..Len(sheetRows) : phoneNumbersMatch(sheetRows[k].phone, phone)}
    IN  IF found = {} THEN 0 ELSE CHOOSE k \in found : \A l \in found : k <= l

\* the sheet after upsertContact(leadData) wrote: the found row merged
\* (text joined with the separator), or a new row appended
UpsertedRows(rows, row, phone, message) ==
    IF row = 0
      THEN Append(rows, [phone |-> phone, regiNo |-> <<>>, name |-> "",
                         status |-> "Lead",
                         message |-> IF message = "" THEN <<>> ELSE <<message>>])
      ELSE [rows EXCEPT ![row].message = IF message = "" THEN @ ELSE @ \o <<message>>]

\* ---- contactHandler ----

\* the broken buildWriteBoth that throws only when both halves failed
WriteBothThrows_OnlyBoth(errors) == Cardinality(errors) > 1

\* buildWriteBoth: `if (errors.length > 0) throw`
WriteBothThrows(errors) == errors # {}

\* res.status(200).json({status, ...})
Responded(rec, status, message) ==
    [rec EXCEPT !.pc = "responded",
                !.response = [status |-> status, message |-> message]]

\* the promises handleFormSubmission leaves running as it returns:
\* FirebaseService.addToWhitelist when there is a number and a name, and
\* WatiService.sendRegistrationConfirmation
FormSideEffects(rec) ==
    (IF (rec.form.formNum # <<>> \/ rec.phone # <<>>) /\ rec.name # ""
       THEN {"whitelist"} ELSE {})
    \cup {"confirmation"}

\* after `await tryWriteOrQueue(...)`: handleNewContact awaits
\* WatiService.setWaidAttribute, handleInterestedUser returns and the webhook
\* answers; handleFormSubmission starts its two side effects without
\* awaiting them and returns { status: 'form_update_success' }
HandlerGoesOn(rec) ==
    IF rec.handler = "handleNewContact" THEN [rec EXCEPT !.pc = "side"]
    ELSE IF rec.handler = "handleFormSubmission"
      THEN Responded([rec EXCEPT !.sidePending = FormSideEffects(rec)],
                     "form_update_success", "")
    ELSE Responded(rec, "success", "")

\* The sheet half of writeFn settled with rec.errors collected: writeFn
\* resolves or throws, and the catch of tryWriteOrQueue enqueues writeFn.
SettleWriteBothIn(tasks, t, rec) ==
    LET threw == WriteBothThrows(rec.errors)
        after == [rec EXCEPT
                    !.row = 0,
                    !.threw = threw,
                    !.enq = IF ~threw THEN "none"
                            ELSE IF EnqueueGuard(rec.operationId) THEN "pushed"
                            ELSE "skipped"]
    IN  /\ IF threw
             THEN Enqueued(rec.operationId, [owner |-> t])
             ELSE UNCHANGED <<queue, heap, itemLog, intervalId, enqueueLog>>
        /\ task' = [tasks EXCEPT ![t] = HandlerGoesOn(after)]

SettleWriteBoth(t, rec) == SettleWriteBothIn(task, t, rec)

\* upsertContact: the read that looks the phone up settles
ShFind(t) ==
    /\ task[t].pc = "sh_find"
    /\ IF shDown
         THEN SettleWriteBoth(t, [task[t] EXCEPT !.errors = @ \cup {"sheet"}])
         ELSE /\ task' = [task EXCEPT ![t].pc = "sh_write",
                                      ![t].row = findByPhone(task[t].phone)]
              /\ UNCHANGED <<queue, heap, itemLog, intervalId, enqueueLog>>
    /\ UNCHANGED <<leads, leadCounter, sheetRows, fsDown, shDown, processedEvents>>
    /\ UNCHANGED <<clock, passes, outage>>
    /\ UNCHANGED <<mutexVars, auxVars>>

\* upsertContact: the cell update or the append settles; the writeBoth of
\* handleFormSubmission goes on to SheetService.updateFormData(params)
ShWrite(t) ==
    /\ task[t].pc = "sh_write"
    /\ IF shDown
         THEN /\ SettleWriteBoth(t, [task[t] EXCEPT !.errors = @ \cup {"sheet"}])
              /\ UNCHANGED sheetRows
         ELSE /\ sheetRows' = UpsertedRows(sheetRows, task[t].row, task[t].phone,
                                           task[t].message)
              /\ IF task[t].handler = "handleFormSubmission"
                   THEN /\ task' = [task EXCEPT ![t].pc = "uf_find", ![t].row = 0]
                        /\ UNCHANGED <<queue, heap, itemLog, intervalId, enqueueLog>>
                   ELSE SettleWriteBoth(t, task[t])
    /\ UNCHANGED <<leads, leadCounter, fsDown, shDown, processedEvents>>
    /\ UNCHANGED <<clock, passes, outage>>
    /\ UNCHANGED <<mutexVars, auxVars>>

\* a handler without the try/catch around setWaidAttribute: the rejection
\* reaches the outer catch and the webhook answers with an error
AfterSideEffect_Uncaught(rec, watiFails) ==
    IF watiFails THEN Responded(rec, "error", "External service error")
    ELSE Responded(rec, "success", "New contact processed")

\* handleNewContact after `try { await WatiService.setWaidAttribute(params) }
\* catch (e) { console.error(...) }`: it returns its success result
AfterSideEffect(rec, watiFails) ==
    Responded(rec, "success", "New contact processed")

\* handleNewContact: WatiService.setWaidAttribute resolves, or rejects and is
\* caught (watiFails: the catch logged the error, kept in sideFailed); the
\* handler returns and the webhook answers
SideEffectSettles(t, watiFails) ==
    /\ task[t].pc = "side"
    /\ task' = [task EXCEPT ![t] =
          AfterSideEffect([task[t] EXCEPT
                              !.sideFailed = IF watiFails THEN @ \cup {"wati"} ELSE @],
                          watiFails)]
    /\ UNCHANGED <<leads, leadCounter, sheetRows, fsDown, shDown, processedEvents>>
    /\ UNCHANGED <<mutexVars, queueVars, auxVars>>

\* A promise a handler started without awaiting it settles (Smartflo
\* createContact, addToWhitelist, sendRegistrationConfirmation): a rejection
\* goes to its .catch, which logs it (kept in sideFailed)
FireAndForgetSettles(t, which, fails) ==
    /\ which \in task[t].sidePending
    /\ task' = [task EXCEPT
                   ![t].sidePending = @ \ {which},
                   ![t].sideFailed = IF fails THEN @ \cup {which} ELSE @]
    /\ UNCHANGED <<leads, leadCounter, sheetRows, fsDown, shDown, processedEvents>>
    /\ UNCHANGED <<mutexVars, queueVars, auxVars>>

\* ---- index.js ----

\* the handler starts: validatePhoneNumber passed, leadData and writeFn are
\* built, writeFn() runs to the first await of createOrUpdateLead
HandlerStarts(rec, handler, params) ==
    LET phone == normalizePhone(params.waId)
        new == handler = "handleNewContact"
    IN  [rec EXCEPT
            !.pc = "cou_find",
            !.handler = handler,
            !.phone = phone,
            !.message = IF new THEN "" ELSE params.text,
            !.historyAction = IF new THEN "lead_created" ELSE "interested_reply",
            !.operationId = [kind |-> IF new THEN "newContact" ELSE "interested",
                             phone |-> phone, at |-> clock],
            !.sidePending = IF new THEN {"smartflo"} ELSE {},
            !.attempted = {"firestore"}]

\* the webhook calls are numbered in the order they arrive
ArrivesNext(r) ==
    /\ task[r].pc = "idle"
    /\ \E k \in 1..Len(ReqOrder) :
          /\ ReqOrder[k] = r
          /\ \A j \in 1..(k - 1) : task[ReqOrder[j]].pc # "idle"

\* POST /webhook with body params, up to the first await
Webhook(r, params) ==
    /\ ArrivesNext(r)
    /\ IF generateEventId(params) \in processedEvents
         THEN /\ task' = [task EXCEPT ![r] =
                    Responded(task[r], "success", "duplicate_ignored")]
              /\ UNCHANGED processedEvents
         ELSE /\ processedEvents' = processedEvents \cup {generateEventId(params)}
              /\ task' = [task EXCEPT ![r] =
                    IF Dispatch(params) = "none"
                      THEN Responded(task[r], "success", "No handler found")
                    ELSE IF ~ValidPhone(params.waId)
                      THEN Responded(task[r], "error", "Invalid phone number")
                    ELSE HandlerStarts(task[r], Dispatch(params), params)]
    /\ UNCHANGED <<leads, leadCounter, sheetRows, fsDown, shDown>>
    /\ UNCHANGED <<mutexVars, queueVars, auxVars>>

\* The webhook bodies of one subscriber whose number comes with the country
\* code in one delivery and without it in another
FormatEvents ==
    {[eventType |-> s[1], listReplyId |-> s[2], text |-> s[3],
      waId |-> w, messageId |-> ""] :
        s \in {<<NEW_CONTACT, "", "">>, <<"message", INTERESTED, "hello">>},
        w \in {<<"9", "1">> \o LocalNumber, LocalNumber}}

\* createOrUpdateLead(leadData) is called directly; a later call repeats the
\* phone and fields of the first
UpsertCall(t, phone, message) ==
    /\ task[t].pc = "idle"
    /\ Len(task[t].results) < MaxUpsertCalls
    /\ task[t].results # <<>> => (phone = task[t].phone /\ message = task[t].message)
    /\ task' = [task EXCEPT ![t].pc = "cou_find",
                            ![t].handler = "direct",
                            ![t].op = "createOrUpdateLead",
                            ![t].phone = phone,
                            ![t].message = message,
                            ![t].historyAction = "contact_updated",
                            ![t].fsFailed = FALSE]
    /\ UNCHANGED <<leads, leadCounter, sheetRows, fsDown, shDown, processedEvents>>
    /\ UNCHANGED <<mutexVars, queueVars, auxVars>>

\* the phone the direct callers pass, and one that is too short
StorePhone == LocalNumber

ShortPhone == <<"1", "2", "3", "4", "5">>

\* the sheet columns an edit can be on: one that FIELD_MAP has, one it lacks
EditFields == {"status", "cg_id"}

\* the name and message of the leadData given to createOrUpdateLead: both
\* empty, or both filled in
LeadDataInputs == {<<"", "">>, <<"Asha", "hello">>}

\* The calls followed, with their arguments: createOrUpdateLead(leadData),
\* createLead(leadData), updateLead(phone, {status}, 'form_submitted'),
\* addHistory(phone, 'attendance_marked') and processEdit(edit); the short
\* phone is given to the three that the lead store exports for single writes.
StoreCalls ==
    {[op |-> "createOrUpdateLead", phone |-> StorePhone, name |-> d[1],
      message |-> d[2], edit |-> NoEdit] : d \in LeadDataInputs}
    \cup {[op |-> "createLead", phone |-> p, name |-> "", message |-> "hello",
           edit |-> NoEdit] : p \in {StorePhone, ShortPhone}}
    \cup {[op |-> o, phone |-> p, name |-> "", message |-> "", edit |-> NoEdit] :
        o \in {"updateLead", "addHistory"}, p \in {StorePhone, ShortPhone}}
    \cup {[op |-> "processEdit", phone |-> StorePhone, name |-> "", message |-> "",
           edit |-> [field |-> f, newValue |-> "Won", isString |-> TRUE]] :
               f \in EditFields}

\* the called function runs to its first await, or returns before it
Entered(rec) ==
    IF rec.op = "createOrUpdateLead"
      THEN [rec EXCEPT !.pc = "cou_find", !.historyAction = "contact_updated"]
    ELSE IF rec.op = "createLead"
      THEN IF ValidLeadPhone(rec.phone) THEN [rec EXCEPT !.pc = "cl_find"]
           ELSE Returned(rec, "null")
    ELSE IF rec.op = "updateLead"
      THEN [rec EXCEPT !.pc = "upd_find", !.historyAction = "form_submitted",
                       !.updates = [NoUpdates EXCEPT !.field = "status",
                                                     !.value = "Registered"]]
    ELSE IF rec.op = "addHistory"
      THEN [rec EXCEPT !.pc = "ah_find", !.historyAction = "attendance_marked"]
    ELSE IF rec.phone = <<>> THEN Returned(rec, "no_phone")
    ELSE IF Len(normalizePhone(rec.phone)) < 10 THEN Returned(rec, "invalid_phone")
    ELSE IF FIELD_MAP(rec.edit.field) = "" THEN Returned(rec, "unknown_field")
    ELSE [rec EXCEPT !.pc = "pe_find", !.historyAction = "field_updated"]

\* the direct calls made so far
StoreCallsMade ==
    Cardinality({t \in StoreCallers : task[t].pc # "idle"})
    + Len(task["a"].results) + Len(task["b"].results)

\* direct caller t makes the call `call`, one of at most `max`
Calls(t, call, max) ==
    /\ task[t].pc = "idle"
    /\ StoreCallsMade < max
    /\ task' = [task EXCEPT ![t] =
          Entered([task[t] EXCEPT !.handler = "direct", !.op = call.op,
                                  !.phone = call.phone, !.name = call.name,
                                  !.message = call.message,
                                  !.edit = call.edit, !.fsFailed = FALSE])]
    /\ UNCHANGED <<leads, leadCounter, sheetRows, fsDown, shDown, processedEvents>>
    /\ UNCHANGED <<mutexVars, queueVars, auxVars>>

\* a direct caller makes its next call; "a" is the caller of the first
StoreCall(t, call) ==
    /\ StoreCallsMade = 0 => t = "a"
    /\ Calls(t, call, MaxStoreCalls)

\* the one caller makes its next call
SeqCall(call) == Calls("a", call, MaxSeqCalls)

\* ---- syncHandler.handleSheetEdit ----

\* the edits of a batch at most
MaxEdits == 2

\* no handleSheetEdit call made yet: `results`, the position of the for loop
\* and what the call returned
NoSheetEdit ==
    [pc |-> "idle", edits |-> <<>>, at |-> 0, synced |-> 0, errors |-> 0,
     failed |-> <<>>, stored |-> 0, message |-> ""]

\* The edits followed: a status edit, a rating that came as a number, an edit
\* of a column FIELD_MAP lacks, and an edit without a phone
SheetEdits ==
    {[phone |-> StorePhone, field |-> "status", newValue |-> "Won", isString |-> TRUE],
     [phone |-> StorePhone, field |-> "rating", newValue |-> "5", isString |-> FALSE],
     [phone |-> StorePhone, field |-> "cg_id", newValue |-> "Won", isString |-> TRUE],
     [phone |-> <<>>, field |-> "status", newValue |-> "Won", isString |-> TRUE]}

EditBatches ==
    UNION {[1..n -> SheetEdits] : n \in 0..MaxEdits}

\* `await processEdit(edit, editor)` is called by the loop
ProcessEditCalled(rec, edit) ==
    Entered([rec EXCEPT !.handler = "direct", !.op = "processEdit",
                        !.phone = edit.phone, !.name = "", !.message = "",
                        !.edit = [field |-> edit.field, newValue |-> edit.newValue,
                                  isString |-> edit.isString],
                        !.fsFailed = FALSE])

\* a catch block that counts the error and does not list the edit
Counted_ThrowNotListed(call, result) ==
    IF result = "synced" THEN [call EXCEPT !.synced = @ + 1]
    ELSE IF result = "threw" THEN [call EXCEPT !.errors = @ + 1, !.stored = @ + 1]
    ELSE [call EXCEPT !.errors = @ + 1, !.failed = Append(@, call.at)]

\* the body of the for loop after processEdit settled: result.success, the
\* else branch, or the catch block with its storeSyncFailure(...).catch()
Counted(call, result) ==
    IF result = "synced" THEN [call EXCEPT !.synced = @ + 1]
    ELSE IF result = "threw"
      THEN [call EXCEPT !.errors = @ + 1, !.failed = Append(@, call.at),
                        !.stored = @ + 1]
    ELSE [call EXCEPT !.errors = @ + 1, !.failed = Append(@, call.at)]

\* handleSheetEdit(params) is called with params.edits = edits and runs to
\* the first await of processEdit
handleSheetEdit(edits) ==
    /\ sheetEdit.pc = "idle"
    /\ task["a"].pc = "idle"
    /\ IF Len(edits) = 0
         THEN /\ sheetEdit' = [sheetEdit EXCEPT !.pc = "returned",
                                                !.message = "No edits"]
              /\ UNCHANGED task
         ELSE /\ sheetEdit' = [sheetEdit EXCEPT !.pc = "loop", !.edits = edits,
                                                !.at = 1]
              /\ task' = [task EXCEPT !["a"] = ProcessEditCalled(@, edits[1])]
    /\ UNCHANGED <<leads, leadCounter, sheetRows, fsDown, shDown, processedEvents>>
    /\ UNCHANGED <<mutexVars, queueVars, helperLog, dedupVars>>

\* processEdit settled for the edit at hand: the loop counts it and goes on
\* to the next edit, or handleSheetEdit returns its result
SheetEditGoesOn ==
    /\ sheetEdit.pc = "loop"
    /\ task["a"].pc = "idle"
    /\ Len(task["a"].results) = sheetEdit.at
    /\ LET counted == Counted(sheetEdit, task["a"].results[sheetEdit.at])
       IN  IF sheetEdit.at < Len(sheetEdit.edits)
             THEN /\ sheetEdit' = [counted EXCEPT !.at = @ + 1]
                  /\ task' = [task EXCEPT !["a"] =
                        ProcessEditCalled(@, sheetEdit.edits[sheetEdit.at + 1])]
             ELSE /\ sheetEdit' = [counted EXCEPT !.pc = "returned",
                                                  !.message = "Processed"]
                  /\ UNCHANGED task
    /\ UNCHANGED <<leads, leadCounter, sheetRows, fsDown, shDown, processedEvents>>
    /\ UNCHANGED <<mutexVars, queueVars, helperLog, dedupVars>>

\* ---- sheetsService.insertNewContact ----
\* config.FIRESTORE has ENABLED and no PHASE: `PHASE >= 2` is false and the
\* sheet-first path runs.

\* insertNewContact calls the direct callers make in a run
MaxSheetCalls == 2

RECURSIVE TrimStart(_)
TrimStart(str) ==
    IF str # <<>> /\ Head(str) = " " THEN TrimStart(Tail(str)) ELSE str

RECURSIVE TrimEnd(_)
TrimEnd(str) ==
    IF str # <<>> /\ str[Len(str)] = " " THEN TrimEnd(SubSeq(str, 1, Len(str) - 1))
    ELSE str

\* cleanString(str): (str || '').toString().trim()
cleanString(str) == TrimEnd(TrimStart(str))

\* a scan that starts at the second row, `for (let i = 1; ...)`
findUserByPhoneNumber_FromSecond(rows, phoneNumber) ==
    LET found == {k \in 2..Len(rows) :
                     \/ phoneNumbersMatch(phoneNumber, rows[k].phone)
                     \/ phoneNumbersMatch(phoneNumber, rows[k].regiNo)}
    IN  IF found = {} THEN 0 ELSE CHOOSE k \in found : \A l \in found : k <= l

\* findUserByPhoneNumber(phoneNumber) over the rows that values.get answered:
\* the first row whose NUMBER or REGI_NO cell matches, 0 for null. Row k here
\* is sheet row k + 1 (`row: i + 2` with i counted from 0).
findUserByPhoneNumber(rows, phoneNumber) ==
    LET found == {k \in 1..Len(rows) :
                     \/ phoneNumbersMatch(phoneNumber, rows[k].phone)
                     \/ phoneNumbersMatch(phoneNumber, rows[k].regiNo)}
    IN  IF found = {} THEN 0 ELSE CHOOSE k \in found : \A l \in found : k <= l

\* the waId values insertNewContact is given: with country code, padded with
\* a blank, and missing (handleFormSubmission passes `params.wa_num || ''`)
InsertWaIds == {<<"9", "1">> \o LocalNumber, <<" ">> \o LocalNumber, <<>>}

InsertParams == {[waId |-> w, text |-> m] : w \in InsertWaIds, m \in {"", "hello"}}

\* what insertNewContact returns: 'Existing contact updated', 'New contact
\* created'
InsertAnswers == {"row_updated", "row_created"}

\* insertNewContact(params) is called by direct caller t, one call of at
\* most `max`, and runs to its first await. `repeat` notes that the call
\* before it had the same input and returned.
InsertCalls(t, params, max) ==
    LET waId == cleanString(params.waId)
        rec == task[t]
    IN  /\ rec.pc = "idle"
        /\ StoreCallsMade < max
        /\ task' = [task EXCEPT ![t] =
              [rec EXCEPT !.pc = "in_find", !.handler = "direct",
                          !.op = "insertNewContact", !.phone = waId,
                          !.message = params.text, !.edit = NoEdit,
                          !.fsFailed = FALSE, !.last = NoLast,
                          !.repeat = /\ rec.op = "insertNewContact"
                                     /\ rec.results # <<>>
                                     /\ rec.results[Len(rec.results)] \in InsertAnswers
                                     /\ rec.phone = waId
                                     /\ rec.message = params.text]]
        /\ UNCHANGED <<leads, leadCounter, sheetRows, fsDown, shDown, processedEvents>>
        /\ UNCHANGED <<mutexVars, queueVars, auxVars>>

\* a direct caller calls insertNewContact; "a" is the caller of the first
InsertCall(t, params) ==
    /\ StoreCallsMade = 0 => t = "a"
    /\ InsertCalls(t, params, MaxSheetCalls)

\* the one caller calls insertNewContact again
InsertSeqCall(params) == InsertCalls("a", params, MaxSheetCalls)

\* insertNewContact is left, by a return or by the rejection of a sheet call
InsertReturned(rec, result) ==
    [rec EXCEPT !.pc = "idle", !.results = Append(@, result), !.row = 0,
                !.updates = NoUpdates]

\* the worker a fire-and-forget promise started now runs as, "" for none
FreeWorker ==
    LET free == {k \in 1..Len(WorkerOrder) : task[WorkerOrder[k]].pc = "idle"}
    IN  IF free = {} THEN ""
        ELSE WorkerOrder[CHOOSE k \in free : \A l \in free : k <= l]

\* fireAndForgetFirestore(() => FirestoreService[op](...)) and the return
\* that follows it: the promise runs to its first await, the caller has its
\* answer.
InsertReturns(t, result, op) ==
    /\ FreeWorker # ""
    /\ task' = [task EXCEPT
          ![t] = InsertReturned(task[t], result),
          ![FreeWorker] = Entered([NoTask EXCEPT !.handler = "background",
                                                 !.op = op,
                                                 !.phone = task[t].phone,
                                                 !.message = task[t].message])]

\* `existingContact = await findUserByPhoneNumber(waId)`: values.get answers
\* or rejects. For a row found the `updates` are built from the row as read;
\* with none to send the function returns now.
InFind(t) ==
    /\ task[t].pc = "in_find"
    /\ IF shDown
         THEN task' = [task EXCEPT ![t] = InsertReturned(task[t], "threw")]
         ELSE LET row == findUserByPhoneNumber(sheetRows, task[t].phone)
              IN  IF row = 0
                    THEN task' = [task EXCEPT ![t].pc = "in_rows"]
                  ELSE IF task[t].message # ""
                    THEN task' = [task EXCEPT
                            ![t].pc = "in_update",
                            ![t].row = row,
                            ![t].updates =
                               [NoUpdates EXCEPT
                                  !.hasMessage = TRUE,
                                  !.message = sheetRows[row].message
                                                 \o <<task[t].message>>]]
                  ELSE InsertReturns(t, "row_updated", "createOrUpdateLead")
    /\ UNCHANGED <<leads, leadCounter, sheetRows, fsDown, shDown, processedEvents>>
    /\ UNCHANGED <<mutexVars, queueVars, auxVars>>

\* values.batchUpdate of the message cell settles
InUpdate(t) ==
    /\ task[t].pc = "in_update"
    /\ IF shDown
         THEN /\ task' = [task EXCEPT ![t] = InsertReturned(task[t], "threw")]
              /\ UNCHANGED sheetRows
         ELSE /\ sheetRows' = [sheetRows EXCEPT
                                 ![task[t].row].message = task[t].updates.message]
              /\ InsertReturns(t, "row_updated", "createOrUpdateLead")
    /\ UNCHANGED <<leads, leadCounter, fsDown, shDown, processedEvents>>
    /\ UNCHANGED <<mutexVars, queueVars, auxVars>>

\* _appendToSheet: the values.get that gives `nextRow` settles
InRows(t) ==
    /\ task[t].pc = "in_rows"
    /\ task' = [task EXCEPT ![t] =
          IF shDown THEN InsertReturned(task[t], "threw")
          ELSE [task[t] EXCEPT !.pc = "in_append", !.row = Len(sheetRows) + 1]]
    /\ UNCHANGED <<leads, leadCounter, sheetRows, fsDown, shDown, processedEvents>>
    /\ UNCHANGED <<mutexVars, queueVars, auxVars>>

\* _appendToSheet: values.append settles; the row goes below the last one
InAppend(t) ==
    /\ task[t].pc = "in_append"
    /\ IF shDown
         THEN /\ task' = [task EXCEPT ![t] = InsertReturned(task[t], "threw")]
              /\ UNCHANGED sheetRows
         ELSE /\ sheetRows' = Append(sheetRows,
                    [phone |-> task[t].phone, regiNo |-> <<>>, name |-> "",
                     status |-> "Lead",
                     message |-> IF task[t].message = "" THEN <<>>
                                 ELSE <<task[t].message>>])
              /\ InsertReturns(t, "row_created", "createLead")
    /\ UNCHANGED <<leads, leadCounter, fsDown, shDown, processedEvents>>
    /\ UNCHANGED <<mutexVars, queueVars, auxVars>>

\* ---- formHandler.handleFormSubmission, sheetsService.updateFormData ----

\* config.EVENT_TYPES.FORM_FILLED
FORM_FILLED == "MC_FormFilled"

\* the option the handler compares with (its text is in Gujarati)
OfflineOption == "Offline (Ahmedabad class)"

\* the options that contain 'online', whatever the case
OnlineOptions == {"Online (at home)"}

\* handleFormSubmission: the status for the document store
FormStatus(option) ==
    IF option = OfflineOption THEN "Ahm MC Link Sent" ELSE "Online MC Link Sent"

\* updateFormData: the status for the sheet
SheetFormStatus(option) ==
    IF option \in OnlineOptions THEN "Online MC Link Sent" ELSE "Ahm MC Link Sent"

\* The form submissions followed: wa_num with country code or missing, the
\* registration number typed into the form, an option or none
FormEvents ==
    {[eventType |-> FORM_FILLED, waId |-> w, messageId |-> m, name |-> "Asha",
      form_num |-> OtherNumber, option |-> o] :
        w \in {<<"9", "1">> \o LocalNumber, <<>>}, m \in MessageIds,
        o \in {"Online (at home)", ""}}

\* POST /webhook with a form submission, up to the first await of
\* handleFormSubmission: the phone is taken as it is, writeBoth() runs to the
\* first await of createOrUpdateLead
FormWebhook(r, params) ==
    /\ ArrivesNext(r)
    /\ IF generateEventId(params) \in processedEvents
         THEN /\ task' = [task EXCEPT ![r] =
                    Responded(task[r], "success", "duplicate_ignored")]
              /\ UNCHANGED processedEvents
         ELSE /\ processedEvents' = processedEvents \cup {generateEventId(params)}
              /\ task' = [task EXCEPT ![r] =
                    [task[r] EXCEPT
                       !.pc = "cou_find",
                       !.handler = "handleFormSubmission",
                       !.phone = params.waId,
                       !.name = params.name,
                       !.message = "",
                       !.historyAction = "form_submitted",
                       !.form = [formNum |-> params.form_num,
                                 option |-> params.option,
                                 statusValue |-> FormStatus(params.option)],
                       !.operationId = [kind |-> "form", phone |-> params.waId,
                                        at |-> clock],
                       !.attempted = {"firestore"}]]
    /\ UNCHANGED <<leads, leadCounter, sheetRows, fsDown, shDown>>
    /\ UNCHANGED <<mutexVars, queueVars, auxVars>>

\* updateFormData: `userMatch = await findUserByPhoneNumber(waId)` settles;
\* a rejection and 'No match found' are thrown to writeBoth
UfFind(t) ==
    /\ task[t].pc = "uf_find"
    /\ LET row == findUserByPhoneNumber(sheetRows, task[t].phone)
       IN  IF shDown \/ row = 0
             THEN SettleWriteBoth(t, [task[t] EXCEPT !.errors = @ \cup {"sheet"}])
             ELSE /\ task' = [task EXCEPT ![t].pc = "uf_write", ![t].row = row]
                  /\ UNCHANGED <<queue, heap, itemLog, intervalId, enqueueLog>>
    /\ UNCHANGED <<leads, leadCounter, sheetRows, fsDown, shDown, processedEvents>>
    /\ UNCHANGED <<clock, passes, outage>>
    /\ UNCHANGED <<mutexVars, auxVars>>

\* the promise of fireAndForgetFirestore(() => updateLead(waId, {name,
\* regiNo, status}, {action: 'form_submitted'})) at its first await
FormUpdateStarted(rec) ==
    [NoTask EXCEPT
        !.pc = "upd_find", !.handler = "background", !.op = "updateLead",
        !.phone = rec.phone, !.historyAction = "form_submitted",
        !.updates = [NoUpdates EXCEPT
                        !.hasName = TRUE, !.name = rec.name,
                        !.hasRegiNo = TRUE, !.regiNo = rec.form.formNum,
                        !.field = "status",
                        !.value = SheetFormStatus(rec.form.option)]]

\* updateFormData: values.batchUpdate of the name, REGI_NO and status cells
\* settles; then the document update is started and writeBoth settles
UfWrite(t) ==
    /\ task[t].pc = "uf_write"
    /\ IF shDown
         THEN /\ SettleWriteBoth(t, [task[t] EXCEPT !.errors = @ \cup {"sheet"}])
              /\ UNCHANGED sheetRows
         ELSE /\ FreeWorker # ""
              /\ sheetRows' = [sheetRows EXCEPT
                    ![task[t].row].name = task[t].name,
                    ![task[t].row].regiNo = task[t].form.formNum,
                    ![task[t].row].status = SheetFormStatus(task[t].form.option)]
              /\ SettleWriteBothIn(
                    [task EXCEPT ![FreeWorker] = FormUpdateStarted(task[t])],
                    t, task[t])
    /\ UNCHANGED <<leads, leadCounter, fsDown, shDown, processedEvents>>
    /\ UNCHANGED <<clock, passes, outage>>
    /\ UNCHANGED <<mutexVars, auxVars>>

\* ---- sheetsService.findUserByPhoneNumber, called on a sheet agents edit ----

\* rows the agents put into the sheet in a run
MaxSheetRows == 2

\* findUserByPhoneNumber calls made in a run
MaxLookupCalls == 2

\* '+91 98765 43210'
SpacedNumber ==
    <<"+", "9", "1", " ", "9", "8", "7", "6", "5", " ", "4", "3", "2", "1", "0">>

\* the phones looked up: one subscriber in three formats, another one, none
LookupPhones ==
    {SpacedNumber, <<"9", "1">> \o LocalNumber, LocalNumber, OtherNumber, <<>>}

\* the rows agents add: NUMBER and REGI_NO cells in different formats, either
\* of them possibly empty
AgentRows ==
    {[phone |-> c[1], regiNo |-> c[2], name |-> "", status |-> "Lead",
      message |-> <<>>] :
        c \in {<<SpacedNumber, <<>> >>, <<LocalNumber, <<>> >>,
               <<OtherNumber, <<"9", "1">> \o LocalNumber>>,
               <<OtherNumber, <<>> >>, << <<>>, OtherNumber>>}}

\* an agent adds a row at the bottom of the sheet
SheetEdited(row) ==
    /\ Len(sheetRows) < MaxSheetRows
    /\ sheetRows' = Append(sheetRows, row)
    /\ UNCHANGED <<leads, leadCounter, fsDown, shDown, processedEvents, task>>
    /\ UNCHANGED <<mutexVars, queueVars, auxVars>>

\* findUserByPhoneNumber(phoneNumber) is called and runs to its values.get
LookupCall(t, phoneNumber) ==
    /\ task[t].pc = "idle"
    /\ StoreCallsMade < MaxLookupCalls
    /\ task' = [task EXCEPT ![t].pc = "fu_get", ![t].handler = "direct",
                            ![t].op = "findUserByPhoneNumber",
                            ![t].phone = phoneNumber, ![t].row = 0]
    /\ UNCHANGED <<leads, leadCounter, sheetRows, fsDown, shDown, processedEvents>>
    /\ UNCHANGED <<mutexVars, queueVars, auxVars>>

\* values.get settles: the rejection propagates, or the rows are scanned and
\* { row, data } or null is returned
FuGet(t) ==
    /\ task[t].pc = "fu_get"
    /\ task' = [task EXCEPT ![t] =
          IF shDown
            THEN [task[t] EXCEPT !.pc = "idle", !.results = Append(@, "threw")]
          ELSE LET row == findUserByPhoneNumber(sheetRows, task[t].phone)
               IN  [task[t] EXCEPT
                      !.pc = "idle", !.row = row,
                      !.results = Append(@, IF row = 0 THEN "row_null"
                                            ELSE "row_found")]]
    /\ UNCHANGED <<leads, leadCounter, sheetRows, fsDown, shDown, processedEvents>>
    /\ UNCHANGED <<mutexVars, queueVars, auxVars>>

\* ---- the environment ----

\* a call is between its first await and its return
InFlight == \E t \in Tasks : task[t].pc \notin {"idle", "responded"}

\* the document store goes down or comes back
FirestoreFlips ==
    /\ InFlight
    /\ fsDown' = ~fsDown
    /\ UNCHANGED <<leads, leadCounter, sheetRows, shDown, processedEvents, task>>
    /\ UNCHANGED <<mutexVars, queueVars, auxVars>>

\* the spreadsheet API goes down or comes back
SheetsFlips ==
    /\ InFlight
    /\ shDown' = ~shDown
    /\ UNCHANGED <<leads, leadCounter, sheetRows, fsDown, processedEvents, task>>
    /\ UNCHANGED <<mutexVars, queueVars, auxVars>>

\* Time passes while webhook calls arrive, by the width of the time bucket of
\* generateEventId; calls with no TimePasses step between them read the same
\* Date.now().
TimePasses ==
    /\ \E r \in Reqs : task[r].pc = "idle"
    /\ clock < MaxRequestTick * POLL_INTERVAL_MS
    /\ clock' = clock + POLL_INTERVAL_MS
    /\ UNCHANGED <<queue, heap, intervalId, passes, itemLog, enqueueLog, outage>>
    /\ UNCHANGED <<mutexVars, leadVars, auxVars>>

WebhookNext ==
    \/ \E r \in Reqs, params \in Events : Webhook(r, params)
    \/ \E r \in Reqs : CouFind(r)
    \/ \E r \in Reqs : UpdFind(r)
    \/ \E r \in Reqs : UpdWrite(r)
    \/ \E r \in Reqs : ClFind(r)
    \/ \E r \in Reqs : ClCgId(r)
    \/ \E r \in Reqs, id \in DocIds : ClAdd(r, id)
    \/ \E r \in Reqs : ShFind(r)
    \/ \E r \in Reqs : ShWrite(r)
    \/ \E r \in Reqs : SideEffectSettles(r, FALSE)
    \/ FirestoreFlips
    \/ SheetsFlips
    \/ TimePasses

\* webhook deliveries for one subscriber in two phone formats
FormatsNext ==
    \/ \E r \in Reqs, params \in FormatEvents : Webhook(r, params)
    \/ \E r \in Reqs : CouFind(r)
    \/ \E r \in Reqs : UpdFind(r)
    \/ \E r \in Reqs : UpdWrite(r)
    \/ \E r \in Reqs : ClFind(r)
    \/ \E r \in Reqs : ClCgId(r)
    \/ \E r \in Reqs, id \in DocIds : ClAdd(r, id)
    \/ \E r \in Reqs : ShFind(r)
    \/ \E r \in Reqs : ShWrite(r)
    \/ \E r \in Reqs : SideEffectSettles(r, FALSE)
    \/ FirestoreFlips
    \/ SheetsFlips

UpsertNext ==
    \/ \E t \in Upserters, phone \in WaIdInputs, message \in {"", "hello"} :
          UpsertCall(t, phone, message)
    \/ \E t \in Upserters : CouFind(t)
    \/ \E t \in Upserters : UpdFind(t)
    \/ \E t \in Upserters : UpdWrite(t)
    \/ \E t \in Upserters : ClFind(t)
    \/ \E t \in Upserters : ClCgId(t)
    \/ \E t \in Upserters, id \in DocIds : ClAdd(t, id)
    \/ FirestoreFlips

\* the calls made by callers in flight together: a createOrUpdateLead
\* carries a name and a message
StoreCallsTogether ==
    {call \in StoreCalls : call.op = "createOrUpdateLead" => call.message # ""}

\* the direct callers, in flight together
StoreNext ==
    \/ \E t \in StoreCallers, call \in StoreCallsTogether : StoreCall(t, call)
    \/ \E t \in StoreCallers : CouFind(t)
    \/ \E t \in StoreCallers : UpdFind(t)
    \/ \E t \in StoreCallers : UpdWrite(t)
    \/ \E t \in StoreCallers : AhFind(t)
    \/ \E t \in StoreCallers : AhWrite(t)
    \/ \E t \in StoreCallers : ClFind(t)
    \/ \E t \in StoreCallers : ClCgId(t)
    \/ \E t \in StoreCallers, id \in DocIds : ClAdd(t, id)
    \/ \E t \in StoreCallers : PeFind(t)
    \/ \E t \in StoreCallers : PeVerify(t)
    \/ FirestoreFlips

\* one handleSheetEdit call and the processEdit calls of its loop
SyncNext ==
    \/ \E edits \in EditBatches : handleSheetEdit(edits)
    \/ SheetEditGoesOn
    \/ PeFind("a")
    \/ PeVerify("a")
    \/ ClFind("a")
    \/ ClCgId("a")
    \/ \E id \in DocIds : ClAdd("a", id)
    \/ UpdFind("a")
    \/ UpdWrite("a")
    \/ FirestoreFlips

\* one caller, each call made after the one before returned
SeqNext ==
    \/ \E call \in StoreCalls : SeqCall(call)
    \/ CouFind("a")
    \/ UpdFind("a")
    \/ UpdWrite("a")
    \/ AhFind("a")
    \/ AhWrite("a")
    \/ ClFind("a")
    \/ ClCgId("a")
    \/ \E id \in DocIds : ClAdd("a", id)
    \/ PeFind("a")
    \/ PeVerify("a")
    \/ FirestoreFlips

\* insertNewContact called by the direct callers, in flight together, and
\* the promises it leaves running
SheetNext ==
    \/ \E t \in StoreCallers, params \in InsertParams : InsertCall(t, params)
    \/ \E t \in StoreCallers : InFind(t)
    \/ \E t \in StoreCallers : InUpdate(t)
    \/ \E t \in StoreCallers : InRows(t)
    \/ \E t \in StoreCallers : InAppend(t)
    \/ \E w \in Workers : CouFind(w)
    \/ \E w \in Workers : UpdFind(w)
    \/ \E w \in Workers : UpdWrite(w)
    \/ \E w \in Workers : ClFind(w)
    \/ \E w \in Workers : ClCgId(w)
    \/ \E w \in Workers, id \in DocIds : ClAdd(w, id)
    \/ FirestoreFlips
    \/ SheetsFlips

\* insertNewContact called by one caller, each call after the one before
\* returned
SheetSeqNext ==
    \/ \E params \in InsertParams : InsertSeqCall(params)
    \/ InFind("a")
    \/ InUpdate("a")
    \/ InRows("a")
    \/ InAppend("a")
    \/ \E w \in Workers : CouFind(w)
    \/ \E w \in Workers : UpdFind(w)
    \/ \E w \in Workers : UpdWrite(w)
    \/ \E w \in Workers : ClFind(w)
    \/ \E w \in Workers : ClCgId(w)
    \/ \E w \in Workers, id \in DocIds : ClAdd(w, id)
    \/ FirestoreFlips
    \/ SheetsFlips

\* webhook deliveries of form submissions
FormNext ==
    \/ \E r \in Reqs, params \in FormEvents : FormWebhook(r, params)
    \/ \E r \in Reqs : CouFind(r)
    \/ \E t \in Reqs \cup Workers : UpdFind(t)
    \/ \E t \in Reqs \cup Workers : UpdWrite(t)
    \/ \E r \in Reqs : ClFind(r)
    \/ \E r \in Reqs : ClCgId(r)
    \/ \E r \in Reqs, id \in DocIds : ClAdd(r, id)
    \/ \E r \in Reqs : ShFind(r)
    \/ \E r \in Reqs : ShWrite(r)
    \/ \E r \in Reqs : UfFind(r)
    \/ \E r \in Reqs : UfWrite(r)
    \/ FirestoreFlips
    \/ SheetsFlips

\* one new-contact delivery and one form submission of the same subscriber
SideEvents ==
    {[eventType |-> NEW_CONTACT, listReplyId |-> "", text |-> "",
      waId |-> <<"9", "1">> \o LocalNumber, messageId |-> ""]}

SideFormEvents ==
    {[eventType |-> FORM_FILLED, waId |-> <<"9", "1">> \o LocalNumber,
      messageId |-> "", name |-> "Asha", form_num |-> OtherNumber,
      option |-> "Online (at home)"]}

\* the side effects a handler can have
SideEffects == {"smartflo", "wati", "whitelist", "confirmation"}

\* webhook deliveries whose side effects succeed or fail, with the
\* spreadsheet API reachable or not
SideNext ==
    \/ \E r \in Reqs, params \in SideEvents : Webhook(r, params)
    \/ \E r \in Reqs, params \in SideFormEvents : FormWebhook(r, params)
    \/ \E r \in Reqs : CouFind(r)
    \/ \E t \in Reqs \cup Workers : UpdFind(t)
    \/ \E t \in Reqs \cup Workers : UpdWrite(t)
    \/ \E r \in Reqs : ClFind(r)
    \/ \E r \in Reqs : ClCgId(r)
    \/ \E r \in Reqs, id \in DocIds : ClAdd(r, id)
    \/ \E r \in Reqs : ShFind(r)
    \/ \E r \in Reqs : ShWrite(r)
    \/ \E r \in Reqs : UfFind(r)
    \/ \E r \in Reqs : UfWrite(r)
    \/ \E r \in Reqs, watiFails \in BOOLEAN : SideEffectSettles(r, watiFails)
    \/ \E r \in Reqs, which \in SideEffects, fails \in BOOLEAN :
          FireAndForgetSettles(r, which, fails)
    \/ SheetsFlips

\* findUserByPhoneNumber called by one caller on a sheet that agents fill
LookupNext ==
    \/ \E row \in AgentRows : SheetEdited(row)
    \/ \E phoneNumber \in LookupPhones : LookupCall("a", phoneNumber)
    \/ FuGet("a")
    \/ SheetsFlips

Init ==
    /\ lockStore = MutexStart.lockStore
    /\ mutexPc = MutexStart.mutexPc
    /\ retries = MutexStart.retries
    /\ callWaId = MutexStart.callWaId
    /\ mutexLog = MutexStart.mutexLog
    /\ queue = QueueStart.queue
    /\ heap = QueueStart.heap
    /\ intervalId = QueueStart.intervalId
    /\ clock = QueueStart.clock
    /\ passes = QueueStart.passes
    /\ itemLog = QueueStart.itemLog
    /\ enqueueLog = QueueStart.enqueueLog
    /\ outage = QueueStart.outage
    /\ leads = LeadStart.leads
    /\ leadCounter = LeadStart.leadCounter
    /\ sheetRows = LeadStart.sheetRows
    /\ fsDown = LeadStart.fsDown
    /\ shDown = LeadStart.shDown
    /\ processedEvents = LeadStart.processedEvents
    /\ task = LeadStart.task
    /\ helperLog = <<>>
    /\ eventStamps = {}
    /\ deliveries = <<>>
    /\ sheetEdit = NoSheetEdit

SpecQueue == Init /\ [][QueueNext]_vars

Spec == Init /\ [][WebhookNext]_vars

SpecUpsert == Init /\ [][UpsertNext]_vars

SpecStore == Init /\ [][StoreNext]_vars

SpecSeq == Init /\ [][SeqNext]_vars

SpecFormats == Init /\ [][FormatsNext]_vars

SpecForm == Init /\ [][FormNext]_vars

SpecLookup == Init /\ [][LookupNext]_vars

SpecSide == Init /\ [][SideNext]_vars

SpecHelpers == Init /\ [][HelperNext]_vars

SpecDedup == Init /\ [][DedupNext]_vars

SpecSync == Init /\ [][SyncNext]_vars

SpecSheet == Init /\ [][SheetNext]_vars

SpecSheetSeq == Init /\ [][SheetSeqNext]_vars

(***************************************************************************)
(* Claims about the retry queue, under SpecQueue                           *)
(***************************************************************************)

\* the items that `queue` holds (by reference)
InQueue(u) == \E k \in 1..Len(queue) : queue[k] = u

NoDuplicateOperationId ==
    \A k \in 1..Len(queue), l \in 1..Len(queue) :
        k # l => heap[queue[k]].operationId # heap[queue[l]].operationId

\* C3: the queue never holds two items with the same operationId, and an
\* enqueue call whose operationId is already queued changes neither the queue
\* nor any item (attempts, nextRetryAt, enqueuedAt).
C3_EnqueueDeduplicates ==
    /\ []NoDuplicateOperationId
    /\ [][(enqueueLog'.calls = enqueueLog.calls + 1 /\ Queued(enqueueLog'.operationId))
            => (queue' = queue /\ heap' = heap)]_vars

\* C3 witness: a second enqueue of the operationId already queued was skipped,
\* one item is queued.
C3_Witness ==
    /\ enqueueLog.calls = 2
    /\ enqueueLog.skipped
    /\ Len(queue) = 1
    /\ heap[queue[1]].operationId = enqueueLog.operationId

\* C4: an item whose write function always throws is queued as long as fewer
\* than MAX_RETRIES of its attempts have failed, is gone once the 5th has, and
\* has exactly one DEAD_LETTER record then and none before.
C4_DeadLetterExactlyAfterFifth ==
    \A u \in 1..Len(heap) :
        heap[u].writeFn = "alwaysThrows" =>
            /\ InQueue(u) <=> itemLog[u].failed < MAX_RETRIES
            /\ itemLog[u].dead = (IF itemLog[u].failed >= MAX_RETRIES THEN 1 ELSE 0)

\* C5: when the k-th attempt (k = 1..4) of an always-throwing write function
\* fails, nextRetryAt becomes the tick's time plus BACKOFF_MS[k], and it never
\* moves backwards.
C5_BackoffSchedule ==
    [][\A u \in 1..Len(heap) :
          (/\ heap[u].writeFn = "alwaysThrows"
           /\ itemLog'[u].failed = itemLog[u].failed + 1
           /\ itemLog'[u].failed < MAX_RETRIES)
          => /\ \E p \in PassIds :
                   /\ passes[p].active /\ passes[p].item = u
                   /\ heap'[u].nextRetryAt =
                         passes[p].now + BACKOFF_MS[itemLog'[u].failed + 1]
             /\ heap'[u].nextRetryAt >= heap[u].nextRetryAt]_vars

\* C6: an item whose write function has resolved is out of the queue from
\* that attempt on.
C6_ResolvedItemLeavesQueue ==
    \A u \in 1..Len(heap) : itemLog[u].resolved > 0 => ~InQueue(u)


SpecMutex == Init /\ [][MutexNext]_vars

\* C1: two concurrent withWaIdMutex calls with the same non-empty identity
\* never have both their fn invocations executing at the same time.
C1_NoOverlapSameIdentity ==
    \A c \in MutexCallers, d \in MutexCallers :
        (c # d /\ mutexPc[c] = "fn" /\ mutexPc[d] = "fn"
              /\ callWaId[c] # "" /\ callWaId[c] = callWaId[d]) => FALSE

(***************************************************************************)
(* Claims about the webhook and the dual write, under Spec                 *)
(***************************************************************************)

\* the call is between the first lookup and the last write of its lead
InLeadSequence(t) ==
    task[t].pc \in {"cou_find", "upd_find", "upd_write", "cl_find", "cl_cgid",
                    "cl_add", "sh_find", "sh_write"}

\* writeFn has settled for the call and tryWriteOrQueue is over
WriteSettled(t) ==
    /\ task[t].pc \in {"side", "responded"}
    /\ task[t].handler \in {"handleNewContact", "handleInterestedUser"}

\* C2: a webhook call that is inside its find / decide / write sequence holds
\* the lease of its phone, and no two calls for the same phone are inside
\* that sequence at the same time.
C2_HandledInsideMutex ==
    /\ \A r \in Reqs : InLeadSequence(r) => task[r].phone \in lockStore
    /\ \A r \in Reqs, q \in Reqs :
          (r # q /\ InLeadSequence(r) /\ InLeadSequence(q))
              => task[r].phone # task[q].phone

\* C7: when createOrUpdateLead failed on a document-store error during the
\* inline write (it answered null), the combined write was handed to the
\* retry queue, whatever the sheet half did.
C7_StoreOutageIsQueued ==
    \A r \in Reqs :
        (WriteSettled(r) /\ task[r].fsFailed /\ task[r].results = <<"null">>)
            => task[r].enq # "none"

\* C8: every settled invocation of the function built by buildWriteBoth has
\* attempted both the document-store upsert and the sheet upsert, and it threw
\* exactly when one of the two attempts threw.
C8_WriteBothAttemptsBoth ==
    \A r \in Reqs :
        WriteSettled(r) =>
            /\ task[r].attempted = {"firestore", "sheet"}
            /\ task[r].threw <=> task[r].errors # {}

\* C8 witness: the document-store half failed, the sheet half was attempted
\* all the same and threw, and the write function threw.
C8_Witness ==
    \E r \in Reqs :
        /\ WriteSettled(r)
        /\ task[r].fsFailed /\ task[r].results = <<"null">>
        /\ task[r].attempted = {"firestore", "sheet"}
        /\ task[r].errors = {"sheet"}
        /\ task[r].threw

\* the queue items ever pushed under the operationId of call r with the write
\* function of call r
PushedFor(r) ==
    {u \in 1..Len(heap) : /\ heap[u].operationId = task[r].operationId
                          /\ heap[u].writeFn = [owner |-> r]}

\* C9: once tryWriteOrQueue has settled, nothing was enqueued if the inline
\* write resolved, the call's own write function was pushed exactly once
\* under its operationId if the inline write threw, and the webhook answers
\* success.
C9_FailedWriteIsQueuedOnce ==
    \A r \in Reqs :
        WriteSettled(r) =>
            /\ ~task[r].threw => (task[r].enq = "none" /\ PushedFor(r) = {})
            /\ task[r].threw => Cardinality(PushedFor(r)) = 1
            /\ task[r].pc = "responded" => task[r].response.status = "success"

(***************************************************************************)
(* Claims about createOrUpdateLead called in a row, under SpecUpsert       *)
(***************************************************************************)

\* the lead documents stored for a phone
LeadsFor(phone) ==
    {d \in DOMAIN leads : leads[d].phoneNormalized = normalizePhone(phone)}

\* C10: after createOrUpdateLead inserted the lead and was then called again
\* with the same phone and fields, there is exactly one lead document for the
\* phone.
C10_SecondUpsertNeverInserts ==
    \A t \in Upserters :
        (/\ task[t].pc = "idle"
         /\ Len(task[t].results) = MaxUpsertCalls
         /\ task[t].results[1] = "created")
            => Cardinality(LeadsFor(task[t].phone)) = 1

(***************************************************************************)
(* Claims about the document store, under SpecUpsert, SpecSeq and SpecStore *)
(***************************************************************************)

\* C13: once createOrUpdateLead has succeeded for a lead, running it again
\* with the same leadData (the retry of the write function re-runs this half)
\* leaves the message and the history of every stored lead as they were.
C13_RetryOfSucceededHalfIsNoOp ==
    [][\A t \in Upserters :
          (/\ task[t].results # <<>>
           /\ task[t].results[1] \in {"created", "updated"})
             => \A d \in DOMAIN leads :
                   /\ leads'[d].message = leads[d].message
                   /\ leads'[d].history = leads[d].history]_vars

\* direct caller t gets, in this step, the answer of an update of document d
\* that supplied a history entry
UpdateAnswered(t, d) ==
    /\ Len(task'[t].results) = Len(task[t].results) + 1
    /\ task'[t].results[Len(task'[t].results)] \in {"updated", "history_added", "synced"}
    /\ task'[t].last.docId = d

\* C14: with one update after another, the history of a lead grows by exactly
\* one entry in the step that completes an update with a history entry
\* (updateLead, createOrUpdateLead, addHistory, the sheet-edit sync) and by
\* none in any other step, and the entries it had stay where they were,
\* unchanged.
C14_HistoryAppendOnly ==
    [][\A d \in DOMAIN leads :
          /\ Len(leads'[d].history) >= Len(leads[d].history)
          /\ SubSeq(leads'[d].history, 1, Len(leads[d].history)) = leads[d].history
          /\ Len(leads'[d].history) - Len(leads[d].history) =
                IF \E t \in StoreCallers : UpdateAnswered(t, d) THEN 1 ELSE 0]_vars

\* a lead that was created and then updated twice, in two different ways
C14_Witness ==
    \E d \in DOMAIN leads :
        /\ Len(leads[d].history) = 3
        /\ leads[d].history[1].action = "lead_created"
        /\ leads[d].history[2].action # leads[d].history[3].action
        /\ task["a"].pc = "idle"

\* C15: no two lead documents have the same phoneNormalized.
C15_PhoneNormalizedUnique ==
    \A d \in DOMAIN leads, e \in DOMAIN leads :
        d # e => leads[d].phoneNormalized # leads[e].phoneNormalized

\* 'CG…' ids compared as the strings they are: a counter id 'CG00007' sorts
\* before every timestamp id 'CGM…', counter ids by number, timestamp ids by
\* time
CgIdBefore(x, y) ==
    IF x.series = y.series
      THEN x.n < y.n \/ (x.n = y.n /\ x.ms < y.ms)
      ELSE x.series = "seq"

\* C16: the id getNextCgId issues comes after every id issued before that a
\* lead has or a call in flight holds (so it equals none of them), and no two
\* leads have the same cgId.
C16_CgIdsUniqueAndIncreasing ==
    /\ [][\A t \in StoreCallers :
             (task[t].pc = "cl_cgid" /\ task'[t].pc = "cl_add")
                => \A id \in KnownCgIds : CgIdBefore(id, task'[t].cgId)]_vars
    /\ [](\A d \in DOMAIN leads, e \in DOMAIN leads :
             d # e => leads[d].cgId # leads[e].cgId)

\* C17: no step changes the cgId of a stored lead.
C17_CgIdImmutable ==
    [][\A d \in DOMAIN leads : leads'[d].cgId = leads[d].cgId]_vars

\* a lead with its cgId that the sheet-edit sync has updated, after a second
\* call for its phone returned
C17_Witness ==
    \E d \in DOMAIN leads :
        /\ leads[d].cgId.series = "seq"
        /\ leads[d].status = "Won"
        /\ \E t \in StoreCallers :
              /\ task[t].pc = "idle"
              /\ task[t].last.docId = d
              /\ task[t].results # <<>>
              /\ task[t].results[Len(task[t].results)] \in {"exists", "updated", "history_added"}

\* C18: a createLead call for a phone that has a lead inserts no document
\* and leaves the counter alone in each of its steps, and it returns
\* created = false with the docId and cgId of that lead.
C18_CreateLeadOnExistingPhone ==
    [][\A t \in StoreCallers :
          (/\ task[t].op = "createLead"
           /\ task[t].pc # "idle"
           /\ LeadsFor(task[t].phone) # {})
             => /\ DOMAIN leads' = DOMAIN leads
                /\ leadCounter' = leadCounter
                /\ task'[t].pc = "idle" =>
                      /\ task'[t].results[Len(task'[t].results)] = "exists"
                      /\ task'[t].last.docId \in LeadsFor(task[t].phone)
                      /\ task'[t].last.cgId = leads[task'[t].last.docId].cgId]_vars

\* C19: a createLead call with a phone of fewer than 10 digits has returned
\* null by its first step, and that step leaves the lead collection and the
\* counter as they were.
C19_CreateLeadShortPhone ==
    [][\A t \in StoreCallers :
          (/\ task'[t] # task[t]
           /\ task'[t].op = "createLead"
           /\ Len(normalizePhone(task'[t].phone)) < 10)
             => /\ task'[t].pc = "idle"
                /\ task'[t].results[Len(task'[t].results)] = "null"
                /\ leads' = leads
                /\ leadCounter' = leadCounter]_vars

\* createLead with a short phone has returned null while the store holds a
\* lead and the counter has been used
C19_Witness ==
    \E t \in StoreCallers :
        /\ task[t].op = "createLead"
        /\ Len(normalizePhone(task[t].phone)) < 10
        /\ task[t].pc = "idle"
        /\ task[t].results # <<>>
        /\ task[t].results[Len(task[t].results)] = "null"
        /\ DOMAIN leads # {}
        /\ leadCounter > 0

\* C20: a step of an updateLead or addHistory call for a phone that has no
\* lead leaves the lead collection and the counter as they were, and when
\* the call returns in that step it returns null.
C20_UpdateOfMissingLead ==
    [][\A t \in StoreCallers :
          (/\ task[t].op \in {"updateLead", "addHistory"}
           /\ task[t].pc # "idle"
           /\ task'[t] # task[t]
           /\ LeadsFor(task[t].phone) = {})
             => /\ leads' = leads
                /\ leadCounter' = leadCounter
                /\ task'[t].pc = "idle"
                /\ task'[t].results[Len(task'[t].results)] = "null"]_vars

\* updateLead and addHistory have both returned null for a ten-digit phone
\* that has no lead, with the store reachable
C20_Witness ==
    /\ task["a"].op = "updateLead"
    /\ task["b"].op = "addHistory"
    /\ \A t \in StoreCallers :
          /\ task[t].pc = "idle"
          /\ task[t].results = <<"null">>
          /\ ~task[t].fsFailed
          /\ Len(normalizePhone(task[t].phone)) >= 10
          /\ LeadsFor(task[t].phone) = {}

(***************************************************************************)
(* Claims about the contacts sheet, under SpecSheetSeq and SpecSheet       *)
(***************************************************************************)

\* the rows whose NUMBER cell holds `phone`, in whatever format
RowsFor(phone) ==
    {k \in 1..Len(sheetRows) : phoneNumbersMatch(phone, sheetRows[k].phone)}

\* C11: when insertNewContact is called twice in a row with the same input
\* and the first call returned, the second call never goes on to append: it
\* finds a row and answers 'Existing contact updated', and the sheet then
\* holds exactly one row for the phone it was given.
C11_TwiceInARowOneRow ==
    \A t \in StoreCallers :
        (task[t].op = "insertNewContact" /\ task[t].repeat) =>
            /\ task[t].pc \notin {"in_rows", "in_append"}
            /\ (/\ task[t].pc = "idle"
                /\ task[t].results[Len(task[t].results)] \in InsertAnswers)
                  => /\ task[t].results[Len(task[t].results)] = "row_updated"
                     /\ normalizePhone(task[t].phone) # <<>>
                           => Cardinality(RowsFor(task[t].phone)) = 1

\* the second of two identical calls returned after it added its text to the
\* row the first call had appended
C11_Witness ==
    /\ task["a"].repeat
    /\ task["a"].pc = "idle"
    /\ task["a"].results = <<"row_created", "row_updated">>
    /\ normalizePhone(task["a"].phone) # <<>>
    /\ Len(sheetRows) = 1
    /\ sheetRows[1].message = <<"hello", "hello">>

\* C12: the sheet never holds two rows for one lead phone, whatever calls
\* are in flight together.
C12_OneRowPerPhone ==
    \A k \in 1..Len(sheetRows), l \in 1..Len(sheetRows) :
        (k # l /\ normalizePhone(sheetRows[k].phone) # <<>>)
            => ~phoneNumbersMatch(sheetRows[k].phone, sheetRows[l].phone)

(***************************************************************************)
(* Claims about merging, duplicates and phone formats                      *)
(***************************************************************************)

\* direct caller t gets, in this step, the answer of the docRef.update that
\* its createOrUpdateLead made
MergeAnswered(t) ==
    /\ task[t].op = "createOrUpdateLead"
    /\ task[t].pc = "upd_write"
    /\ task'[t].pc = "idle"
    /\ task'[t].results[Len(task'[t].results)] = "updated"

\* C21: when createOrUpdateLead updates an existing lead, a name or message
\* that was filled in is still filled in afterwards; an empty incoming name
\* or message leaves the stored one as it was, and an incoming message that
\* is not empty is joined to the end of the stored one (it is the whole
\* message when the stored one was empty).
C21_MergeKeepsPopulatedFields ==
    [][\A t \in StoreCallers :
          MergeAnswered(t) =>
             LET old == leads[task[t].docId]
                 new == leads'[task[t].docId]
             IN  /\ old.name # "" => new.name # ""
                 /\ old.message # <<>> => new.message # <<>>
                 /\ new.name = IF task[t].name = "" THEN old.name ELSE task[t].name
                 /\ new.message = IF task[t].message = "" THEN old.message
                                  ELSE old.message \o <<task[t].message>>]_vars

\* a lead with a name and a message went through a createOrUpdateLead that
\* brought neither, and one whose message was joined to a stored one
C21_Witness ==
    /\ task["a"].op = "createOrUpdateLead"
    /\ task["a"].pc = "idle"
    /\ task["a"].name = ""
    /\ task["a"].results = <<"created", "updated", "updated">>
    /\ \E d \in DOMAIN leads :
          /\ leads[d].name = "Asha"
          /\ leads[d].message = <<"hello", "hello">>

\* webhook call r, handling an event with a message body for a phone whose
\* lead it found, has its docRef.update applied in this step
DuplicateEventWritten(r) ==
    /\ task[r].pc = "upd_write"
    /\ task[r].message # ""
    /\ leads' # leads

\* C22: when the document write of a contact event for a phone that already
\* has a lead is applied, no document is added, and the history of the lead
\* grows by exactly one entry, whose action is contact_updated.
C22_DuplicateEventHistory ==
    [][\A r \in Reqs :
          DuplicateEventWritten(r) =>
             LET old == leads[task[r].docId].history
                 new == leads'[task[r].docId].history
             IN  /\ Len(leads') = Len(leads)
                 /\ Len(new) = Len(old) + 1
                 /\ new[Len(new)].action = "contact_updated"]_vars

\* C23: the leads collection never holds two documents for one subscriber
\* number that differ only in whether the country code was given: documents
\* whose phones have the same last ten digits have the same phoneNormalized.
C23_OneLeadPerSubscriberNumber ==
    \A d \in DOMAIN leads, e \in DOMAIN leads :
        phoneNumbersMatch(leads[d].phoneNormalized, leads[e].phoneNormalized)
            => leads[d].phoneNormalized = leads[e].phoneNormalized

\* the rows with a NUMBER or REGI_NO cell whose last ten digits are those of
\* `phone`
TailMatches(phone) ==
    {k \in 1..Len(sheetRows) :
        \/ getLastTenDigits(sheetRows[k].phone) = getLastTenDigits(phone)
        \/ getLastTenDigits(sheetRows[k].regiNo) = getLastTenDigits(phone)}

\* C24: a findUserByPhoneNumber that answers gives null exactly when no row
\* has a NUMBER or REGI_NO cell with the last ten digits of the phone asked
\* for, and otherwise the first such row in row order; and at any time the
\* three formats of one number find the same row.
C24_LookupByLastTenDigits ==
    /\ [][(task["a"].pc = "fu_get" /\ task'["a"].pc = "idle" /\ ~shDown) =>
             /\ task'["a"].row = 0 <=> TailMatches(task["a"].phone) = {}
             /\ task'["a"].row # 0 =>
                   /\ task'["a"].row \in TailMatches(task["a"].phone)
                   /\ \A k \in TailMatches(task["a"].phone) : task'["a"].row <= k]_vars
    /\ [](\A f \in {SpacedNumber, <<"9", "1">> \o LocalNumber} :
             findUserByPhoneNumber(sheetRows, f)
                = findUserByPhoneNumber(sheetRows, LocalNumber))

\* the number with blanks and a plus sign was looked up and found in the
\* REGI_NO cell of the first of two rows that match it
C24_Witness ==
    /\ task["a"].op = "findUserByPhoneNumber"
    /\ task["a"].pc = "idle"
    /\ task["a"].phone = SpacedNumber
    /\ task["a"].row = 1
    /\ Len(sheetRows) = 2
    /\ sheetRows[1].phone = OtherNumber
    /\ sheetRows[2].phone = LocalNumber

(***************************************************************************)
(* Claims about the release and the termination of withWaIdMutex           *)
(***************************************************************************)

\* caller c leaves withWaIdMutex in this step
MutexSettles(c) == mutexPc[c] # "idle" /\ mutexPc'[c] = "idle"

\* C26: with an identity, every exit of fn (return or throw) runs the
\* delete of the lease; when the delete succeeds the lease of the identity is
\* gone as the call settles, and whether or not the delete fails the call
\* settles with fn's own result or exception.
C26_LeaseReleasedOnEveryExit ==
    [][\A c \in MutexCallers :
          /\ (mutexPc[c] = "fn" /\ mutexPc'[c] # "fn" /\ callWaId[c] # "") =>
                 mutexPc'[c] = "release"
          /\ (MutexSettles(c) /\ callWaId[c] # "") =>
                 /\ mutexPc[c] = "release"
                 /\ mutexLog'[c].release \in {"deleted", "failed"}
                 /\ mutexLog'[c].release = "deleted" =>
                        callWaId[c] \notin lockStore'
          /\ MutexSettles(c) =>
                 /\ mutexLog'[c].fn \in FnOutcomes
                 /\ mutexLog'[c].call = mutexLog'[c].fn]_vars

\* a call whose fn threw and whose delete failed has settled with fn's
\* exception, and another whose fn returned has deleted its lease
C26_Witness ==
    /\ \E c \in MutexCallers :
          /\ mutexPc[c] = "idle"
          /\ mutexLog[c].fn = "threw"
          /\ mutexLog[c].release = "failed"
          /\ mutexLog[c].call = "threw"
    /\ \E c \in MutexCallers :
          /\ mutexPc[c] = "idle"
          /\ mutexLog[c].fn = "returned"
          /\ mutexLog[c].release = "deleted"
          /\ mutexLog[c].call = "returned"
          /\ callWaId[c] \notin lockStore

\* withWaIdMutex where every pending datastore call settles and every 50 ms
\* timer fires: a caller inside the polling loop or at the save goes on
SpecMutexLive ==
    /\ Init
    /\ [][MutexNext]_vars
    /\ \A c \in MutexCallers :
          /\ WF_vars(\E getThrows \in BOOLEAN : MutexGet(c, getThrows))
          /\ WF_vars(\E saveThrows \in BOOLEAN : MutexSave(c, saveThrows))

\* C27: a call polls the lease at most maxRetries times, fn is not invoked
\* before the loop and the save are over and is invoked once from then on,
\* also after failing reads and writes and with the lease still present; and
\* every call that entered the loop goes on to invoke fn.
C27_FnInvokedOnceAfterBoundedWait ==
    /\ [](\A c \in MutexCallers :
            /\ retries[c] <= maxRetries
            /\ mutexPc[c] = "check" => retries[c] < maxRetries
            /\ mutexPc[c] \in {"check", "save"} => mutexLog[c].fnCalls = 0
            /\ mutexPc[c] \in {"fn", "release"} => mutexLog[c].fnCalls = 1
            /\ (mutexPc[c] = "idle" /\ mutexLog[c].call # "none") =>
                   mutexLog[c].fnCalls = 1)
    /\ \A c \in MutexCallers :
          (mutexPc[c] \in {"check", "save"}) ~> (mutexPc[c] = "fn")

\* fn runs after maxRetries polls that all found the lease, which is still
\* there, and another call runs fn after a failed read
C27_Witness ==
    \E c \in MutexCallers :
        /\ mutexPc[c] = "fn"
        /\ mutexLog[c].timedOut
        /\ mutexLog[c].fnCalls = 1
        /\ callWaId[c] \in lockStore

(***************************************************************************)
(* Claims about validation and error handling                              *)
(***************************************************************************)

\* C25: a webhook call whose event has no phone, or one with fewer than ten
\* digits, never gets into the writes of its handler: it has been answered
\* with an error, has attempted neither store and has queued nothing.
C25_InvalidPhoneRejected ==
    \A r \in Reqs :
        (task[r].handler # "none" /\ ~ValidPhone(task[r].phone)) =>
            /\ task[r].pc = "responded"
            /\ task[r].response.status = "error"
            /\ task[r].attempted = {}
            /\ task[r].enq = "none"

\* the pcs at which a call awaits findLeadByPhone
FindPcs == {"cou_find", "upd_find", "ah_find", "cl_find", "pe_find", "pe_verify"}

\* where the caller at rec.pc goes when its lookup found no lead
AfterNotFound(rec) ==
    IF rec.pc = "cou_find" THEN [rec EXCEPT !.pc = "cl_find"]
    ELSE IF rec.pc = "upd_find" THEN UpdateLeadMissing(rec)
    ELSE IF rec.pc = "ah_find" THEN Returned(rec, "null")
    ELSE IF rec.pc = "cl_find" THEN [rec EXCEPT !.pc = "cl_cgid"]
    ELSE IF rec.pc = "pe_find" THEN [rec EXCEPT !.pc = "cl_find"]
    ELSE Returned(rec, "create_verification_failed")

\* C28: when the query of findLeadByPhone throws, the caller gets null and
\* goes on exactly as it does for a phone that has no lead, whether or not
\* the phone has one: createOrUpdateLead and processEdit go to createLead,
\* createLead goes on to create, updateLead and addHistory return null.
C28_LookupErrorIsNotFound ==
    [][\A t \in StoreCallers :
          (/\ task[t].pc \in FindPcs
           /\ FindThrows(task[t].phone)
           /\ task'[t] # task[t]) =>
              task'[t] = AfterNotFound([task[t] EXCEPT !.fsFailed = TRUE])]_vars

\* a createLead whose lookup threw goes on to create a lead for a phone
\* that has one
C28_Witness ==
    \E t \in StoreCallers :
        /\ task[t].op = "createLead"
        /\ task[t].pc = "cl_cgid"
        /\ task[t].fsFailed
        /\ \E d \in DOMAIN leads :
              leads[d].phoneNormalized = normalizePhone(task[t].phone)

(***************************************************************************)
(* Claims about errors of the spreadsheet and of the side effects          *)
(***************************************************************************)

\* C29: a sheet call of the combined write that meets an unreachable
\* spreadsheet API throws into writeFn (the error is collected and writeFn
\* throws), and every settled write whose sheet half failed threw and had its
\* own write function pushed on the retry queue under its operationId.
C29_SheetErrorThrowsAndQueues ==
    /\ [][\A r \in Reqs :
             (/\ task[r].pc \in {"sh_find", "sh_write"}
              /\ shDown
              /\ task'[r] # task[r]) =>
                 ("sheet" \in task'[r].errors /\ task'[r].threw)]_vars
    /\ [](\A r \in Reqs :
             (WriteSettled(r) /\ "sheet" \in task[r].errors) =>
                 (task[r].threw /\ PushedFor(r) # {}))

\* handler h of call r has returned to the webhook
HandlerReturned(r, h) == task[r].handler = h /\ task[r].pc = "responded"

\* the dual write of call r went through: both halves were attempted, none
\* threw, and the phone has its lead and its row
DualWriteDone(r) ==
    /\ task[r].attempted = {"firestore", "sheet"}
    /\ ~task[r].threw
    /\ findLeadByPhone(task[r].phone) # 0
    /\ findByPhone(task[r].phone) # 0

\* C30: whatever side effects failed, handleNewContact and
\* handleFormSubmission return their success result after a dual write that
\* attempted both halves and either went through or was queued; and the step
\* in which a side effect fails changes no lead, no row and no queue item, and
\* leaves the write of the call as it was.
C30_SideEffectFailureIsHarmless ==
    /\ [](\A r \in Reqs :
            /\ HandlerReturned(r, "handleNewContact") =>
                  task[r].response =
                      [status |-> "success", message |-> "New contact processed"]
            /\ HandlerReturned(r, "handleFormSubmission") =>
                  task[r].response.status = "form_update_success"
            /\ (\/ HandlerReturned(r, "handleNewContact")
                \/ HandlerReturned(r, "handleFormSubmission")) =>
                  /\ task[r].attempted = {"firestore", "sheet"}
                  /\ task[r].threw \/ DualWriteDone(r)
                  /\ task[r].threw => task[r].enq # "none")
    /\ [][\A r \in Reqs :
             task'[r].sideFailed # task[r].sideFailed =>
                 /\ leads' = leads /\ sheetRows' = sheetRows /\ queue' = queue
                 /\ task'[r].pc \in {task[r].pc, "responded"}
                 /\ task'[r].attempted = task[r].attempted
                 /\ task'[r].errors = task[r].errors
                 /\ task'[r].threw = task[r].threw]_vars

\* a new-contact call whose Smartflo sync and WATI attribute both failed and
\* a form submission whose whitelist write and confirmation both failed have
\* returned success, each after a dual write that went through
C30_Witness ==
    \E r, q \in Reqs :
        /\ HandlerReturned(r, "handleNewContact")
        /\ task[r].sideFailed = {"smartflo", "wati"}
        /\ task[r].response.status = "success"
        /\ DualWriteDone(r)
        /\ HandlerReturned(q, "handleFormSubmission")
        /\ task[q].sideFailed = {"whitelist", "confirmation"}
        /\ task[q].response.status = "form_update_success"
        /\ DualWriteDone(q)

(***************************************************************************)
(* Claims about the helpers, under SpecHelpers                             *)
(***************************************************************************)

\* the arguments that are null, undefined or the empty string
EmptyInputs == {JsNull, JsUndefined, JsString(<<>>)}

\* C31: a call of normalizePhone or getLastTenDigits with null, undefined
\* or '' returns the empty key, and no call of the three helpers with such an
\* argument throws.
C31_HelpersFailSoftOnEmptyInput ==
    \A k \in 1..Len(helperLog) :
        LET call == helperLog[k]
        IN  /\ (call.num1 \in EmptyInputs /\ call.fn # "phoneNumbersMatch") =>
                  (~call.result.threw /\ call.result.key = <<>>)
            /\ (/\ call.fn = "phoneNumbersMatch"
                /\ (call.num1 \in EmptyInputs \/ call.num2 \in EmptyInputs)) =>
                  ~call.result.threw

(***************************************************************************)
(* Claims about the timing and the concurrency of the retry queue          *)
(***************************************************************************)

\* the first firing of the poll timer after time `at`
FirstTickAfter(at) ==
    intervalId.startedAt
      + ((at - intervalId.startedAt) \div POLL_INTERVAL_MS + 1) * POLL_INTERVAL_MS

\* invocation p of _processQueue starts an attempt of item u in this step
StartsAttempt(p, u) ==
    /\ heap'[u].attempts = heap[u].attempts + 1
    /\ passes'[p] # passes[p]
    /\ passes'[p].active
    /\ passes'[p].item = u

\* C32: the first attempt of an item is made by the _processQueue invocation
\* of the first timer firing after its enqueue, an item not yet attempted is
\* not left behind by that invocation, and every attempt is made by an
\* invocation whose `now` is not earlier than the item's nextRetryAt.
C32_FirstAttemptOnNextTick ==
    /\ [][\A u \in 1..Len(heap) :
             heap'[u].attempts # heap[u].attempts =>
                 \E p \in PassIds :
                     /\ StartsAttempt(p, u)
                     /\ passes'[p].now >= heap[u].nextRetryAt
                     /\ heap[u].attempts = 0 =>
                           passes'[p].now = FirstTickAfter(heap[u].enqueuedAt)]_vars
    /\ [](\A u \in 1..Len(heap) :
             (/\ InQueue(u)
              /\ heap[u].attempts = 0
              /\ clock >= FirstTickAfter(heap[u].enqueuedAt)) =>
                 \E p \in PassIds :
                     /\ passes[p].active
                     /\ passes[p].now = FirstTickAfter(heap[u].enqueuedAt))

\* ---- Claims about the duplicate check, under SpecDedup ----

\* delivery l repeats the event id of the recorded delivery k within the age
\* the sweep keeps
RepeatsWithinWindow(k, l) ==
    /\ k < l
    /\ deliveries[l].eventId = deliveries[k].eventId
    /\ ~skipDuplicateCheck(deliveries[k].params)
    /\ ~skipDuplicateCheck(deliveries[l].params)
    /\ deliveries[k].message # "duplicate_ignored"
    /\ deliveries[l].at - deliveries[k].at <= SWEEP_INTERVAL

\* C33: a webhook whose event id was recorded within the last hour is answered
\* 'duplicate_ignored' and no handler is invoked; a webhook whose event id is
\* not recorded is recorded and dispatched to its handler, once; user_login and
\* sheet_edit deliveries are dispatched every time and never recorded.
C33_DuplicateIgnoredWithinWindow ==
    /\ [][Len(deliveries') = Len(deliveries) + 1 =>
            LET d == deliveries'[Len(deliveries')]
                known == d.eventId \in processedEvents
            IN  /\ skipDuplicateCheck(d.params) =>
                      /\ d.message # "duplicate_ignored"
                      /\ d.handler = DispatchOf(d.params)
                      /\ processedEvents' = processedEvents
                /\ (~skipDuplicateCheck(d.params) /\ known) =>
                      /\ d.message = "duplicate_ignored"
                      /\ d.handler = "none"
                      /\ processedEvents' = processedEvents
                /\ (~skipDuplicateCheck(d.params) /\ ~known) =>
                      /\ d.message # "duplicate_ignored"
                      /\ d.handler = DispatchOf(d.params)
                      /\ d.eventId \in processedEvents']_vars
    /\ [](\A k, l \in 1..Len(deliveries) :
             RepeatsWithinWindow(k, l) =>
                 /\ deliveries[l].message = "duplicate_ignored"
                 /\ deliveries[l].handler = "none")

\* a recorded event id came again an hour later, after a sweep, and was
\* ignored; a login came twice and was dispatched twice
C33_Witness ==
    /\ \E k, l \in 1..Len(deliveries) :
          /\ RepeatsWithinWindow(k, l)
          /\ deliveries[l].at = deliveries[k].at + SWEEP_INTERVAL
          /\ deliveries[k].handler = "handleInterestedUser"
    /\ \E k, l \in 1..Len(deliveries) :
          /\ k < l
          /\ deliveries[k].params = deliveries[l].params
          /\ skipDuplicateCheck(deliveries[k].params)
          /\ deliveries[l].handler # "none"

\* ---- Claims about handleSheetEdit, under SpecSync ----

\* handleSheetEdit returned { synced, errors, failed } for a batch that had
\* edits
BatchReturned == sheetEdit.pc = "returned" /\ sheetEdit.edits # <<>>

\* C34: handleSheetEdit calls processEdit for every edit of the batch, whether
\* or not earlier edits failed or threw; the result has synced + errors equal
\* to the number of edits and failed as long as errors, and failed lists the
\* edits that did not sync.
C34_BatchCountsAddUp ==
    /\ Len(sheetEdit.failed) = sheetEdit.errors
    /\ BatchReturned =>
          /\ Len(task["a"].results) = Len(sheetEdit.edits)
          /\ sheetEdit.synced + sheetEdit.errors = Len(sheetEdit.edits)
          /\ \A k \in 1..Len(sheetEdit.edits) :
                task["a"].results[k] # "synced" <=>
                    \E j \in 1..Len(sheetEdit.failed) : sheetEdit.failed[j] = k
    /\ (sheetEdit.pc = "returned" /\ sheetEdit.edits = <<>>) =>
          sheetEdit.synced + sheetEdit.errors = 0

\* the first edit of a batch threw, the second was synced all the same
C34_Witness ==
    /\ BatchReturned
    /\ Len(sheetEdit.edits) = 2
    /\ task["a"].results[1] = "threw"
    /\ task["a"].results[2] = "synced"
    /\ sheetEdit.synced = 1
    /\ sheetEdit.errors = 1

\* C35: no item's write function is awaited by two invocations of
\* _processQueue at once: a tick that fires while an earlier invocation still
\* awaits item.writeFn() does not start another attempt of that item.
C35_NoOverlappingAttempts ==
    \A p, q \in PassIds :
        (p # q /\ passes[p].active /\ passes[q].active) =>
            passes[p].item # passes[q].item

\* C36: an item leaves `queue` only in the step in which its own write
\* function resolved, or threw with its own attempt count at the maximum; no
\* step removes an item other than the one whose write settled.
C36_OnlyOwnSettlementRemoves ==
    [][\A u \in 1..Len(heap) :
          (InQueue(u) /\ ~InQueue(u)') =>
              \E p \in PassIds :
                  /\ passes[p].active
                  /\ passes[p].item = u
                  /\ \/ itemLog'[u].resolved = itemLog[u].resolved + 1
                     \/ /\ itemLog'[u].dead = itemLog[u].dead + 1
                        /\ heap[u].attempts >= MAX_RETRIES]_vars

\* some invocation of _processQueue is awaiting the write function of item u
Awaited(u) == \E p \in PassIds : passes[p].active /\ passes[p].item = u

\* C37: an item that waits in the queue for its next attempt has an attempt
\* count from 0 to 4, and no item's write function is invoked more than
\* MAX_RETRIES = 5 times (item.attempts counts the invocations).
C37_AttemptsBounded ==
    \A u \in 1..Len(heap) :
        /\ heap[u].attempts <= MAX_RETRIES
        /\ (InQueue(u) /\ ~Awaited(u)) => heap[u].attempts \in 0..(MAX_RETRIES - 1)

\* ---- Claims about the lease while fn runs, under SpecMutex ----

\* caller c is executing fn under a lease identity
ExecutingFn(c) == mutexPc[c] = "fn" /\ callWaId[c] # ""

\* C38: while a caller executes fn for an identity, a lease entity of that
\* identity is in the lock store; the datastore.delete of one caller's
\* finally block never removes the lease another caller is executing fn
\* under.
C38_LeaseHeldWhileFnRuns ==
    /\ [](\A c \in MutexCallers : ExecutingFn(c) => callWaId[c] \in lockStore)
    /\ [][\A c, d \in MutexCallers :
             (/\ c # d
              /\ mutexPc[c] = "release" /\ mutexPc'[c] = "idle"
              /\ ExecutingFn(d)
              /\ callWaId[d] \in lockStore) => callWaId[d] \in lockStore']_vars

\* ---- Claims about the form submission in both stores, under SpecForm ----

\* The form submission r found the lead of its phone and updated it, its
\* sheet half went through (writeBoth did not throw), and every webhook call
\* and every background update has settled
FormWriteCompleted(r) ==
    /\ task[r].handler = "handleFormSubmission"
    /\ task[r].pc = "responded"
    /\ ~task[r].threw
    /\ task[r].results # <<>>
    /\ task[r].results[1] = "updated"
    /\ \A w \in Workers : task[w].pc = "idle"
    /\ \A q \in Reqs : task[q].pc \in {"idle", "responded"}

\* C39: once the dual write of a form submission for a phone that had a lead
\* has completed without error, the lead document and the sheet row of the
\* phone hold the registration number of the form and the same status.
C39_StoresAgreeAfterForm ==
    \A r \in Reqs :
        FormWriteCompleted(r) =>
            LET row == findUserByPhoneNumber(sheetRows, task[r].phone)
            IN  /\ row # 0
                /\ sheetRows[row].regiNo = task[r].form.formNum
                /\ \E d \in DOMAIN leads :
                      /\ leads[d].phoneNormalized = normalizePhone(task[r].phone)
                      /\ leads[d].regiNo = task[r].form.formNum
                      /\ leads[d].status = sheetRows[row].status

\* ---- Claims about the lookup of a phone without digits, under SpecLookup ----

\* C40: a findUserByPhoneNumber that is asked for a phone with fewer than ten
\* digits answers null: no row is returned because its NUMBER or REGI_NO
\* cell is empty.
C40_ShortPhoneMatchesNoRow ==
    [][(/\ task["a"].pc = "fu_get"
        /\ task'["a"].pc = "idle"
        /\ ~shDown
        /\ Len(normalizePhone(task["a"].phone)) < 10) =>
            task'["a"].row = 0]_vars

====
